---- MODULE Spec2Model ----
(***************************************************************************)
(* Authorization ability engine of the NestJS project: the rule compiler   *)
(* CaslAbilityFactory.createAbility, the condition template parser         *)
(* parseConditions, the loader getUserWithPermissions and the evaluation   *)
(* of ability.can(action, subject) by @casl/ability.                       *)
(*                                                                         *)
(* JavaScript values are tagged records so that a number never equals the  *)
(* string that prints like it; strings are sequences of one-character      *)
(* strings so that rendering, the digit test and Number() are computed.    *)
(***************************************************************************)
EXTENDS Integers, Sequences, FiniteSets, TLC

(***************************************************************************)
(* Bounds of the model.                                                    *)
(***************************************************************************)
\* role permissions plus direct claims of one in-memory user graph
MaxRules == 3
\* role permissions plus direct claims of one user row in the database
MaxDbRows == 2
\* last instant of the clock; expiry dates range over 0..MaxTime
MaxTime == 1
\* rows the Post table can hold
MaxPosts == 2

(***************************************************************************)
(* State of the Mustache module, shared by every caller in the process.    *)
(***************************************************************************)
VARIABLE
    templateCache   \* the parsed templates Mustache's default writer keeps

(***************************************************************************)
(* JavaScript values.                                                      *)
(***************************************************************************)
Num(n) == [t |-> "num", n |-> n, s |-> <<>>, b |-> FALSE]
Str(s) == [t |-> "str", n |-> 0, s |-> s, b |-> FALSE]
Bool(b) == [t |-> "bool", n |-> 0, s |-> <<>>, b |-> b]
Undefined == [t |-> "undefined", n |-> 0, s |-> <<>>, b |-> FALSE]

Digits == <<"0", "1", "2", "3", "4", "5", "6", "7", "8", "9">>

\* String(n) for a non-negative integer: its decimal digits
RECURSIVE NumberToString(_)
NumberToString(n) ==
    IF n < 10 THEN <<Digits[n + 1]>>
    ELSE Append(NumberToString(n \div 10), Digits[(n % 10) + 1])

DigitValue(c) == (CHOOSE i \in 1..10 : Digits[i] = c) - 1

IsDigit(c) == \E i \in 1..10 : Digits[i] = c

\* /^\d+$/.test(rendered)
IsAllDigits(s) == Len(s) > 0 /\ \A i \in 1..Len(s) : IsDigit(s[i])

\* Number(rendered) for a string of decimal digits
RECURSIVE StringToNumber(_)
StringToNumber(s) ==
    IF Len(s) = 0 THEN 0
    ELSE 10 * StringToNumber(SubSeq(s, 1, Len(s) - 1)) + DigitValue(s[Len(s)])

\* a === b
StrictEquals(a, b) == a = b

(***************************************************************************)
(* Mustache.render(template, view), for templates made of literal text and *)
(* variable tags {{name}}.                                                 *)
(***************************************************************************)
\* the index of the first "}}" at or after i, 0 when there is none
RECURSIVE ClosingTag(_, _)
ClosingTag(tpl, i) ==
    IF i + 1 > Len(tpl) THEN 0
    ELSE IF tpl[i] = "}" /\ tpl[i + 1] = "}" THEN i
    ELSE ClosingTag(tpl, i + 1)

OpensTag(tpl, i) == i + 1 <= Len(tpl) /\ tpl[i] = "{" /\ tpl[i + 1] = "{"

\* an opening "{{" without a closing "}}": Mustache throws "Unclosed tag"
RECURSIVE MustacheThrows(_, _)
MustacheThrows(tpl, i) ==
    IF i > Len(tpl) THEN FALSE
    ELSE IF OpensTag(tpl, i)
         THEN IF ClosingTag(tpl, i + 2) = 0 THEN TRUE
              ELSE MustacheThrows(tpl, ClosingTag(tpl, i + 2) + 2)
    ELSE MustacheThrows(tpl, i + 1)

\* the view is the User object: its own attributes id and email; a name it
\* does not have looks up to undefined
Lookup(view, name) ==
    IF name = <<"i", "d">> THEN Num(view.id)
    ELSE IF name = <<"e", "m", "a", "i", "l">> THEN Str(view.email)
    ELSE Undefined

\* the text a variable tag renders to: '' for undefined, String(value) else
ValueToText(v) ==
    IF v.t = "num" THEN NumberToString(v.n)
    ELSE IF v.t = "str" THEN v.s
    ELSE <<>>

\* parseTemplate: the tokens of a template from position i on, a text token
\* per character and a name token per variable tag
RECURSIVE parseTemplate(_, _)
parseTemplate(tpl, i) ==
    IF i > Len(tpl) THEN <<>>
    ELSE IF OpensTag(tpl, i) /\ ClosingTag(tpl, i + 2) # 0
         THEN LET j == ClosingTag(tpl, i + 2)
              IN  <<[type |-> "name", value |-> SubSeq(tpl, i + 2, j - 1)]>>
                      \o parseTemplate(tpl, j + 2)
    ELSE <<[type |-> "text", value |-> <<tpl[i]>>]>> \o parseTemplate(tpl, i + 1)

\* renderTokens: the text of the tokens from the i-th on
RECURSIVE renderTokens(_, _, _)
renderTokens(tokens, i, view) ==
    IF i > Len(tokens) THEN <<>>
    ELSE (IF tokens[i].type = "name"
          THEN ValueToText(Lookup(view, tokens[i].value))
          ELSE tokens[i].value) \o renderTokens(tokens, i + 1, view)

\* the cache of a writer that has parsed nothing
EmptyCache == <<>>

\* a cache with one key for every template
CacheKey_Constant(tpl) == <<>>

\* the key of a template in the writer's cache
CacheKey(tpl) == tpl

\* Writer.parse: the cached tokens of the template, parsed on a miss
WriterParse(cache, tpl) ==
    IF CacheKey(tpl) \in DOMAIN cache THEN cache[CacheKey(tpl)]
    ELSE parseTemplate(tpl, 1)

\* a cache that stores the template's characters as text, tags unparsed
CacheAfterParse_StoresText(cache, tpl) ==
    [k \in DOMAIN cache \cup {CacheKey(tpl)} |->
        IF k \in DOMAIN cache THEN cache[k]
        ELSE [i \in 1..Len(tpl) |-> [type |-> "text", value |-> <<tpl[i]>>]]]

\* the cache after Writer.parse of the template
CacheAfterParse(cache, tpl) ==
    [k \in DOMAIN cache \cup {CacheKey(tpl)} |->
        IF k \in DOMAIN cache THEN cache[k] ELSE parseTemplate(tpl, 1)]

\* Mustache.render(template, view): the tokens of the writer, rendered from
\* the i-th on
MustacheRender(tpl, i, view) ==
    renderTokens(WriterParse(templateCache, tpl), i, view)

(***************************************************************************)
(* Stored conditions (Permission.conditions, a JSON column) and            *)
(* parseConditions.  An object is a sequence of entries, one per field:    *)
(* {f: v} is the entry (f, "$eq", v) and {f: {"$ne": v}} is (f, "$ne", v). *)
(***************************************************************************)
Entry(f, op, v) == [field |-> f, op |-> op, value |-> v]

NullConditions == [kind |-> "null", fields |-> <<>>]
ObjectConditions(fields) == [kind |-> "object", fields |-> fields]
ScalarConditions == [kind |-> "scalar", fields |-> <<>>]

\* the result of parseConditions: undefined or a fresh object
NoConditions == [defined |-> FALSE, fields |-> <<>>]
Resolved(fields) == [defined |-> TRUE, fields |-> fields]

\* ParseLeaf that renders and converts the leaves that are not strings too
ParseLeaf_RendersAllLeaves(value, user) ==
    LET rendered == IF value.t = "str" THEN MustacheRender(value.s, 1, user)
                    ELSE ValueToText(value)
    IN  IF IsAllDigits(rendered) THEN Num(StringToNumber(rendered))
        ELSE Str(rendered)

\* ParseLeaf without the conversion of digit strings to numbers
ParseLeaf_NoCoercion(value, user) ==
    IF value.t = "str" THEN Str(MustacheRender(value.s, 1, user)) ELSE value

\* the customizer of _.cloneDeepWith on one leaf
ParseLeaf(value, user) ==
    IF value.t = "str"
    THEN LET rendered == MustacheRender(value.s, 1, user)
         IN  IF IsAllDigits(rendered) THEN Num(StringToNumber(rendered))
             ELSE Str(rendered)
    ELSE value

\* parseConditions that turns a null condition into an empty condition object
parseConditions_NullIsEmptyObject(conditions, user) ==
    IF conditions.kind # "object" THEN Resolved(<<>>)
    ELSE Resolved([i \in 1..Len(conditions.fields) |->
            Entry(conditions.fields[i].field, conditions.fields[i].op,
                  ParseLeaf(conditions.fields[i].value, user))])

parseConditions(conditions, user) ==
    IF conditions.kind # "object" THEN NoConditions
    ELSE Resolved([i \in 1..Len(conditions.fields) |->
            Entry(conditions.fields[i].field, conditions.fields[i].op,
                  ParseLeaf(conditions.fields[i].value, user))])

\* Mustache.render throws inside parseConditions
parseConditionsThrows(conditions) ==
    /\ conditions.kind = "object"
    /\ \E i \in 1..Len(conditions.fields) :
          /\ conditions.fields[i].value.t = "str"
          /\ MustacheThrows(conditions.fields[i].value.s, 1)

(***************************************************************************)
(* Rules and CaslAbilityFactory.createAbility.                             *)
(***************************************************************************)
Actions == {"manage", "create", "read", "update", "delete"}
SubjectTypes == {"Post", "User", "all"}

\* dp.reason is a nullable column: <<>> is NULL, <<text>> a string
NullReason == <<>>
\* expiresAt is a nullable column: <<>> is NULL, <<t>> the instant t
NullDate == <<>>

\* the raw rule AbilityBuilder pushes for can(action, subject, conditions)
CanRule(p, user) ==
    [action |-> p.action, subject |-> p.subject,
     conditions |-> parseConditions(p.conditions, user),
     inverted |-> FALSE, reason |-> NullReason]

\* cannot(action, subject, conditions).because(dp.reason ?? '')
CannotRule(dp, user) ==
    [action |-> dp.permission.action, subject |-> dp.permission.subject,
     conditions |-> parseConditions(dp.permission.conditions, user),
     inverted |-> TRUE,
     reason |-> IF dp.reason = NullReason THEN <<"">> ELSE dp.reason]

\* ur.role.permissions.forEach((rp) => can(...))
RolePermissionRules(ur, user) ==
    [i \in 1..Len(ur.role.permissions) |->
        CanRule(ur.role.permissions[i].permission, user)]

\* user.roles.forEach((ur) => ...), from the role at index i on
RECURSIVE RoleRules(_, _)
RoleRules(user, i) ==
    IF i > Len(user.roles) THEN <<>>
    ELSE RolePermissionRules(user.roles[i], user) \o RoleRules(user, i + 1)

IsGrant(dp) == ~dp.inverted
IsRevoke(dp) == dp.inverted

GrantRules(user) ==
    LET grants == SelectSeq(user.directPermissions, IsGrant)
    IN  [i \in 1..Len(grants) |-> CanRule(grants[i].permission, user)]

\* RevokeRules where only the last revoke of the user is registered
RevokeRules_LastOnly(user) ==
    LET revokes == SelectSeq(user.directPermissions, IsRevoke)
    IN  IF revokes = <<>> THEN <<>>
        ELSE <<CannotRule(revokes[Len(revokes)], user)>>

RevokeRules(user) ==
    LET revokes == SelectSeq(user.directPermissions, IsRevoke)
    IN  [i \in 1..Len(revokes) |-> CannotRule(revokes[i], user)]

\* createAbility with the revokes registered first
createAbility_RevokesFirst(user) ==
    IF user.isNull THEN <<>>
    ELSE RevokeRules(user) \o RoleRules(user, 1) \o GrantRules(user)

\* a rule list without its repeated rules
RECURSIVE Deduplicated(_)
Deduplicated(rules) ==
    IF rules = <<>> THEN <<>>
    ELSE LET rest == Deduplicated(Tail(rules))
         IN  IF \E i \in 1..Len(rest) : rest[i] = Head(rules) THEN rest
             ELSE <<Head(rules)>> \o rest

\* createAbility that registers a repeated rule once
createAbility_Deduplicated(user) ==
    IF user.isNull THEN <<>>
    ELSE Deduplicated(RoleRules(user, 1) \o GrantRules(user) \o RevokeRules(user))

\* the rules handed to build(): roles, then grants, then revokes
createAbility(user) ==
    IF user.isNull THEN <<>>
    ELSE RoleRules(user, 1) \o GrantRules(user) \o RevokeRules(user)

\* the permissions createAbility visits, in the order it visits them
RECURSIVE RolePermissionsFrom(_, _)
RolePermissionsFrom(user, i) ==
    IF i > Len(user.roles) THEN <<>>
    ELSE [j \in 1..Len(user.roles[i].role.permissions) |->
             user.roles[i].role.permissions[j].permission]
         \o RolePermissionsFrom(user, i + 1)

VisitedPermissions(user) ==
    LET grants == SelectSeq(user.directPermissions, IsGrant)
        revokes == SelectSeq(user.directPermissions, IsRevoke)
    IN  RolePermissionsFrom(user, 1)
        \o [i \in 1..Len(grants) |-> grants[i].permission]
        \o [i \in 1..Len(revokes) |-> revokes[i].permission]

\* the string leaves parseConditions renders, in order
StringLeaves(conditions) ==
    IF conditions.kind # "object" THEN <<>>
    ELSE LET strings == SelectSeq(conditions.fields, LAMBDA e : e.value.t = "str")
         IN  [i \in 1..Len(strings) |-> strings[i].value.s]

RECURSIVE RenderedTemplates(_, _)
RenderedTemplates(perms, i) ==
    IF i > Len(perms) THEN <<>>
    ELSE StringLeaves(perms[i].conditions) \o RenderedTemplates(perms, i + 1)

\* the writer's cache after the renders of templates i.. ; a template that
\* does not parse throws and ends the build
RECURSIVE CacheAfterRenders(_, _, _)
CacheAfterRenders(cache, tpls, i) ==
    IF i > Len(tpls) \/ MustacheThrows(tpls[i], 1) THEN cache
    ELSE CacheAfterRenders(CacheAfterParse(cache, tpls[i]), tpls, i + 1)

\* the writer's cache after createAbility(user)
CacheAfterBuild(cache, user) ==
    IF user.isNull THEN cache
    ELSE CacheAfterRenders(cache, RenderedTemplates(VisitedPermissions(user), 1), 1)

\* some parseConditions call of createAbility throws
createAbilityThrows(user) ==
    /\ ~user.isNull
    /\ \/ \E i \in 1..Len(user.roles) :
             \E j \in 1..Len(user.roles[i].role.permissions) :
                parseConditionsThrows(
                    user.roles[i].role.permissions[j].permission.conditions)
       \/ \E i \in 1..Len(user.directPermissions) :
             parseConditionsThrows(user.directPermissions[i].permission.conditions)

(***************************************************************************)
(* ability.can(action, subject) of @casl/ability on the built rules.       *)
(***************************************************************************)
\* a subject given as a bare type string
TypeSubject(type) == [isType |-> TRUE, type |-> type, attrs |-> <<>>]
\* an instance of a wrapper class: new Post({...}), new User({...})
Instance(type, attrs) == [isType |-> FALSE, type |-> type, attrs |-> attrs]
Attr(f, v) == [field |-> f, value |-> v]
PostInstance(authorId, isPublished) ==
    Instance("Post", <<Attr("authorId", Num(authorId)),
                       Attr("isPublished", Bool(isPublished))>>)

\* a string is its own subject type; an object has its constructor.name
detectSubjectType(subject) == subject.type

\* object[field], undefined when the object has no such property
FieldValue(attrs, f) ==
    IF \E i \in 1..Len(attrs) : attrs[i].field = f
    THEN attrs[CHOOSE i \in 1..Len(attrs) : attrs[i].field = f].value
    ELSE Undefined

\* EntryMatches that reads {"$ne": v} as v
EntryMatches_IgnoresNe(e, attrs) == StrictEquals(FieldValue(attrs, e.field), e.value)

\* one field of a Mongo query: equality, or its negation under $ne
EntryMatches(e, attrs) ==
    IF e.op = "$ne" THEN ~StrictEquals(FieldValue(attrs, e.field), e.value)
    ELSE StrictEquals(FieldValue(attrs, e.field), e.value)

\* every field of the query matches the object
ConditionsMatch(fields, attrs) ==
    \A i \in 1..Len(fields) : EntryMatches(fields[i], attrs)

\* RuleRelevant where a wildcard in the query matches any rule
RuleRelevant_Symmetric(rule, action, subjectType) ==
    /\ rule.action = action \/ rule.action = "manage" \/ action = "manage"
    /\ rule.subject = subjectType \/ rule.subject = "all" \/ subjectType = "all"

\* RuleRelevant without the wildcard subject
RuleRelevant_ExactSubject(rule, action, subjectType) ==
    /\ rule.action = action \/ rule.action = "manage"
    /\ rule.subject = subjectType

\* the rules indexed for (action, subjectType): the rule's action is the
\* queried one or manage, its subject the queried type or all
RuleRelevant(rule, action, subjectType) ==
    /\ rule.action = action \/ rule.action = "manage"
    /\ rule.subject = subjectType \/ rule.subject = "all"

\* matchesConditions where no rule with conditions matches a bare type
matchesConditions_InstanceOnly(rule, subject) ==
    IF ~rule.conditions.defined THEN TRUE
    ELSE IF subject.isType THEN FALSE
    ELSE ConditionsMatch(rule.conditions.fields, subject.attrs)

\* matchesConditions where every rule with conditions matches a bare type
matchesConditions_AnyOnType(rule, subject) ==
    IF ~rule.conditions.defined THEN TRUE
    ELSE IF subject.isType THEN TRUE
    ELSE ConditionsMatch(rule.conditions.fields, subject.attrs)

\* Rule.matchesConditions(subject): a rule without conditions matches; on a
\* bare type a rule with conditions matches iff it is not inverted
matchesConditions(rule, subject) ==
    IF ~rule.conditions.defined THEN TRUE
    ELSE IF subject.isType THEN ~rule.inverted
    ELSE ConditionsMatch(rule.conditions.fields, subject.attrs)

\* relevantRuleFor: the rules are tried from the last defined to the first;
\* the index of the first one that matches, 0 when none does
RECURSIVE relevantRuleFrom(_, _, _, _)
relevantRuleFrom(rules, i, action, subject) ==
    IF i = 0 THEN 0
    ELSE IF /\ RuleRelevant(rules[i], action, detectSubjectType(subject))
            /\ matchesConditions(rules[i], subject)
         THEN i
    ELSE relevantRuleFrom(rules, i - 1, action, subject)

\* relevantRuleFor that tries the rules from the first defined on
relevantRuleFor_FirstDefined(rules, action, subject) ==
    LET hits == {i \in 1..Len(rules) :
                    /\ RuleRelevant(rules[i], action, detectSubjectType(subject))
                    /\ matchesConditions(rules[i], subject)}
    IN  IF hits = {} THEN 0 ELSE CHOOSE i \in hits : \A j \in hits : i <= j

relevantRuleFor(rules, action, subject) ==
    relevantRuleFrom(rules, Len(rules), action, subject)

\* can that allows what no rule speaks of
can_AllowByDefault(rules, action, subject) ==
    LET i == relevantRuleFor(rules, action, subject)
    IN  i = 0 \/ ~rules[i].inverted

can(rules, action, subject) ==
    LET i == relevantRuleFor(rules, action, subject)
    IN  i # 0 /\ ~rules[i].inverted

cannot(rules, action, subject) == ~can(rules, action, subject)

(***************************************************************************)
(* AuthorizationService.getUserWithPermissions on the user's row.          *)
(***************************************************************************)
\* expiresAt: null, or { gt: new Date() }
NotExpired(expiresAt, t) == expiresAt = NullDate \/ expiresAt[1] > t

\* findFirst returns null
NoUser ==
    [isNull |-> TRUE, id |-> 0, email |-> <<>>, roles |-> <<>>,
     directPermissions |-> <<>>]

\* getUserWithPermissions without the expiry filter on role assignments
getUserWithPermissions_AnyRoleDate(row, userId, t) ==
    IF row.id = userId /\ row.isActive /\ row.deletedAt = NullDate
    THEN [isNull |-> FALSE, id |-> row.id, email |-> row.email,
          roles |-> SelectSeq(row.roles, LAMBDA ur : ur.role.isActive),
          directPermissions |-> SelectSeq(row.directPermissions,
                       LAMBDA dp : NotExpired(dp.expiresAt, t))]
    ELSE NoUser

\* getUserWithPermissions without the expiry filter on direct claims
getUserWithPermissions_AnyClaimDate(row, userId, t) ==
    IF row.id = userId /\ row.isActive /\ row.deletedAt = NullDate
    THEN [isNull |-> FALSE, id |-> row.id, email |-> row.email,
          roles |-> SelectSeq(row.roles,
                       LAMBDA ur : ur.role.isActive /\ NotExpired(ur.expiresAt, t)),
          directPermissions |-> row.directPermissions]
    ELSE NoUser

\* getUserWithPermissions without deletedAt: null in its where
getUserWithPermissions_IgnoresDeletedAt(row, userId, t) ==
    IF row.id = userId /\ row.isActive
    THEN [isNull |-> FALSE, id |-> row.id, email |-> row.email,
          roles |-> SelectSeq(row.roles,
                       LAMBDA ur : ur.role.isActive /\ NotExpired(ur.expiresAt, t)),
          directPermissions |-> SelectSeq(row.directPermissions,
                       LAMBDA dp : NotExpired(dp.expiresAt, t))]
    ELSE NoUser

getUserWithPermissions(row, userId, t) ==
    IF row.id = userId /\ row.isActive /\ row.deletedAt = NullDate
    THEN [isNull |-> FALSE, id |-> row.id, email |-> row.email,
          roles |-> SelectSeq(row.roles,
                       LAMBDA ur : ur.role.isActive /\ NotExpired(ur.expiresAt, t)),
          directPermissions |-> SelectSeq(row.directPermissions,
                       LAMBDA dp : NotExpired(dp.expiresAt, t))]
    ELSE NoUser

(***************************************************************************)
(* Inputs: the permission rows, the users and the queries.                 *)
(***************************************************************************)
Permission(action, subject, conditions) ==
    [action |-> action, subject |-> subject, conditions |-> conditions]

\* the stored template { "authorId": "{{id}}" }
OwnerTemplate ==
    ObjectConditions(<<Entry("authorId", "$eq", Str(<<"{", "{", "i", "d", "}", "}">>))>>)

\* rows of the Permission table
Permissions ==
    { Permission("manage", "all", NullConditions),
      Permission("delete", "Post", NullConditions),
      Permission("delete", "Post", OwnerTemplate),
      Permission("update", "Post", OwnerTemplate) }

\* rows of the Permission table used by the rows with expiry dates
DbPermissions ==
    { Permission("manage", "all", NullConditions),
      Permission("delete", "Post", NullConditions) }

\* ids of the seeded users "Editor Unico" (2) and the sanctioned admin (12)
UserIds == {2, 12}
\* authors of the posts queried: the users and the foreign author 999
AuthorIds == UserIds \cup {999}
Email == <<"u", "@", "x">>

Dates == {NullDate} \cup {<<t>> : t \in 0..MaxTime}

\* the ways to choose role assignments holding n role permissions in all
RECURSIVE RoleLists(_, _, _, _)
RoleLists(perms, n, actives, dates) ==
    IF n = 0 THEN {<<>>}
    ELSE UNION { { <<[role |-> [isActive |-> a,
                              permissions |-> [i \in 1..k |-> [permission |-> ps[i]]]],
                     expiresAt |-> e]>> \o rest :
                     ps \in [1..k -> perms], a \in actives, e \in dates,
                     rest \in RoleLists(perms, n - k, actives, dates) } :
                 k \in 1..n }

\* the ways to choose c direct claims
ClaimLists(perms, c, dates) ==
    { [i \in 1..c |-> [permission |-> ps[i], inverted |-> inv[i],
                       reason |-> IF inv[i] THEN <<"sanctioned">> ELSE NullReason,
                       expiresAt |-> es[i]]] :
        ps \in [1..c -> perms], inv \in [1..c -> BOOLEAN], es \in [1..c -> dates] }

\* a loaded user graph: roles r and direct claims d of user u
UserGraph(u, r, d) ==
    [isNull |-> FALSE, id |-> u, email |-> Email, roles |-> r,
     directPermissions |-> d]

\* the three states of a user row: active, deactivated, soft-deleted
RowStates == {<<TRUE, NullDate>>, <<FALSE, NullDate>>, <<TRUE, <<0>>>>}

\* the user row with its UserRole rows r and UserPermission rows d
UserRow(st, r, d) ==
    [id |-> 2, email |-> Email, isActive |-> st[1], deletedAt |-> st[2],
     roles |-> r, directPermissions |-> d]

NoDbUser ==
    [id |-> 0, email |-> <<>>, isActive |-> FALSE, deletedAt |-> NullDate,
     roles |-> <<>>, directPermissions |-> <<>>]

QuerySubjects ==
    {TypeSubject(t) : t \in SubjectTypes} \cup
    {PostInstance(a, TRUE) : a \in AuthorIds}

(***************************************************************************)
(* Actions on one user object.                                             *)
(***************************************************************************)
VARIABLES
    now,        \* the clock read by new Date()
    dbUser,     \* the User row with its UserRole and UserPermission rows
    user,       \* the user object in memory, once loaded, and when
    ability,    \* the ability built from it
    lastQuery,  \* the last can() call and its answer
    requests,   \* the HTTP requests in flight, each with its own objects
    db,         \* the User and Post tables behind PrismaService
    jwt         \* the tokens signed by JwtService and the clients' cookies

vars == <<now, dbUser, user, ability, lastQuery, requests, templateCache, db, jwt>>

\* the tables and the tokens where no action reads them
NoDb == <<>>
NoJwt == <<>>

NoAbility == [status |-> "none", rules |-> <<>>]
NoQuery ==
    [asked |-> FALSE, action |-> "manage", subject |-> TypeSubject("all"),
     result |-> FALSE]

\* const ability = this.caslAbilityFactory.createAbility(user)
CreateAbility ==
    /\ user.loaded
    /\ ability.status = "none"
    /\ ability' = IF createAbilityThrows(user.value)
                  THEN [status |-> "threw", rules |-> <<>>]
                  ELSE [status |-> "built", rules |-> createAbility(user.value)]
    /\ templateCache' = CacheAfterBuild(templateCache, user.value)
    /\ UNCHANGED <<now, dbUser, user, lastQuery, requests, db, jwt>>

\* ability.can(action, subject): the one check a caller makes on the
\* ability it built
Can ==
    /\ ability.status = "built"
    /\ ~lastQuery.asked
    /\ \E a \in Actions, s \in QuerySubjects :
          lastQuery' = [asked |-> TRUE, action |-> a, subject |-> s,
                        result |-> can(ability.rules, a, s)]
    /\ UNCHANGED <<now, dbUser, user, ability, requests, templateCache, db, jwt>>

\* time passes
Tick ==
    /\ now < MaxTime
    /\ now' = now + 1
    /\ UNCHANGED <<dbUser, user, ability, lastQuery, requests, templateCache, db, jwt>>

\* a request loads the user: await getUserWithPermissions(userPayload.id)
GetUserWithPermissions ==
    /\ user' = [loaded |-> TRUE, at |-> now,
                value |-> getUserWithPermissions(dbUser, dbUser.id, now)]
    /\ ability' = NoAbility
    /\ lastQuery' = NoQuery
    /\ UNCHANGED <<now, dbUser, requests, templateCache, db, jwt>>

\* the callers go on to createAbility only with a user: if (!user) return
CreateAbilityForUser ==
    /\ user.loaded
    /\ ~user.value.isNull
    /\ CreateAbility

(***************************************************************************)
(* Spec: createAbility and can() on every user graph within the bounds.    *)
(***************************************************************************)
Init ==
    /\ now = 0
    /\ dbUser = NoDbUser
    \* the user object given to createAbility: null, or a loaded graph of at
    \* most MaxRules role permissions and claims (its roles are active and
    \* nothing in it has an expiry date)
    /\ \/ user = [loaded |-> TRUE, at |-> 0, value |-> NoUser]
       \/ \E n \in 0..MaxRules : \E c \in 0..(MaxRules - n) :
             \E u \in UserIds :
             \E r \in RoleLists(Permissions, n, {TRUE}, {NullDate}) :
             \E d \in ClaimLists(Permissions, c, {NullDate}) :
                user = [loaded |-> TRUE, at |-> 0, value |-> UserGraph(u, r, d)]
    /\ ability = NoAbility
    /\ lastQuery = NoQuery
    /\ requests = <<>>
    /\ templateCache = EmptyCache
    /\ db = NoDb
    /\ jwt = NoJwt

Next == CreateAbility \/ Can

Spec == Init /\ [][Next]_vars

(***************************************************************************)
(* SpecLoad: the user is loaded from rows with expiry dates as time passes.*)
(***************************************************************************)
InitLoad ==
    /\ now = 0
    \* the rows of one user, with at most MaxDbRows role permissions and claims
    /\ \E n \in 0..MaxDbRows : \E c \in 0..(MaxDbRows - n) :
          \E st \in RowStates :
          \E r \in RoleLists(DbPermissions, n, BOOLEAN, Dates) :
          \E d \in ClaimLists(DbPermissions, c, Dates) :
             dbUser = UserRow(st, r, d)
    /\ user = [loaded |-> FALSE, at |-> 0, value |-> NoUser]
    /\ ability = NoAbility
    /\ lastQuery = NoQuery
    /\ requests = <<>>
    /\ templateCache = EmptyCache
    /\ db = NoDb
    /\ jwt = NoJwt

NextLoad == Tick \/ GetUserWithPermissions \/ CreateAbilityForUser \/ Can

SpecLoad == InitLoad /\ [][NextLoad]_vars

(***************************************************************************)
(* SpecCond: one permission with each kind of stored condition, held       *)
(* through a role or revoked from an administrator, and asked of posts.    *)
(***************************************************************************)
\* { "authorId": { "$ne": "{{id}}" } }
NotOwnerTemplate ==
    ObjectConditions(<<Entry("authorId", "$ne", Str(<<"{", "{", "i", "d", "}", "}">>))>>)

\* { "authorId": "${user.id}" }: text that is not a Mustache tag
SeedLiteralTemplate ==
    ObjectConditions(<<Entry("authorId", "$eq",
        Str(<<"$", "{", "u", "s", "e", "r", ".", "i", "d", "}">>))>>)

\* { "authorId": "{{uid}}" }: a tag naming an attribute the user lacks
UnknownTagTemplate ==
    ObjectConditions(<<Entry("authorId", "$eq",
        Str(<<"{", "{", "u", "i", "d", "}", "}">>))>>)

\* { "authorId": "{{id" }: a tag that is not closed
UnclosedTagTemplate ==
    ObjectConditions(<<Entry("authorId", "$eq", Str(<<"{", "{", "i", "d">>))>>)

\* { "authorId": "12" }: a string of digits without a tag
DigitsTemplate ==
    ObjectConditions(<<Entry("authorId", "$eq", Str(<<"1", "2">>))>>)

\* { "authorId": 2 }: a number leaf
NumberCondition == ObjectConditions(<<Entry("authorId", "$eq", Num(2))>>)

\* { "isPublished": true }: a boolean leaf
PublishedCondition == ObjectConditions(<<Entry("isPublished", "$eq", Bool(TRUE))>>)

\* { "authorId": "{{id}}", "isPublished": true }: two fields
OwnPublishedTemplate ==
    ObjectConditions(<<Entry("authorId", "$eq", Str(<<"{", "{", "i", "d", "}", "}">>)),
                       Entry("isPublished", "$eq", Bool(TRUE))>>)

ConditionTemplates ==
    { NullConditions, ScalarConditions, OwnerTemplate, NotOwnerTemplate,
      SeedLiteralTemplate, UnknownTagTemplate, UnclosedTagTemplate,
      DigitsTemplate, NumberCondition, PublishedCondition, OwnPublishedTemplate }

CondPermissions ==
    { Permission(a, s, c) :
        a \in {"manage", "read"}, s \in {"all", "Post"}, c \in ConditionTemplates }

\* an active, unexpired assignment of a role with the permissions perms
RoleWith(perms) ==
    [role |-> [isActive |-> TRUE,
               permissions |-> [i \in 1..Len(perms) |-> [permission |-> perms[i]]]],
     expiresAt |-> NullDate]

\* an unexpired revoke of p with its reason
RevokeOf(p, reason) ==
    [permission |-> p, inverted |-> TRUE, reason |-> reason, expiresAt |-> NullDate]

\* the posts found in the database: any author, published or not
Resources == {PostInstance(a, pub) : a \in AuthorIds, pub \in BOOLEAN}

\* ability.can(action, new Post(post)) on a post loaded from the database
CanResource ==
    /\ ability.status = "built"
    /\ ~lastQuery.asked
    /\ \E a \in Actions, s \in Resources :
          lastQuery' = [asked |-> TRUE, action |-> a, subject |-> s,
                        result |-> can(ability.rules, a, s)]
    /\ UNCHANGED <<now, dbUser, user, ability, requests, templateCache, db, jwt>>

InitCond ==
    /\ now = 0
    /\ dbUser = NoDbUser
    /\ \E u \in UserIds : \E p \in CondPermissions :
          \/ user = [loaded |-> TRUE, at |-> 0,
                     value |-> UserGraph(u, <<RoleWith(<<p>>)>>, <<>>)]
          \/ user = [loaded |-> TRUE, at |-> 0,
                     value |-> UserGraph(u,
                        <<RoleWith(<<Permission("manage", "all", NullConditions)>>)>>,
                        <<RevokeOf(p, <<"sanctioned">>)>>)]
    /\ ability = NoAbility
    /\ lastQuery = NoQuery
    /\ requests = <<>>
    /\ templateCache = EmptyCache
    /\ db = NoDb
    /\ jwt = NoJwt

NextCond == CreateAbility \/ Can \/ CanResource

SpecCond == InitCond /\ [][NextCond]_vars

(***************************************************************************)
(* SpecSeed: the administrator of the seed data who was given the revoke   *)
(* on own posts and then the revoke on the posts of others.                *)
(***************************************************************************)
\* reasons of the two UserPermission rows
OwnPostsReason == <<"Auto-restriccion: Prohibido borrar mis posts">>
OtherPostsReason == <<"Restriccion extra: Tampoco puede borrar posts ajenos">>

\* the UserPermission rows of the user, in the order of their insertion or
\* in the reverse order (findFirst's include has no orderBy)
SeedRevokes ==
    LET own == RevokeOf(Permission("delete", "Post", OwnerTemplate), OwnPostsReason)
        others == RevokeOf(Permission("delete", "Post", NotOwnerTemplate),
                           OtherPostsReason)
    IN  {<<own, others>>, <<others, own>>}

InitSeed ==
    /\ now = 0
    /\ dbUser = NoDbUser
    /\ \E u \in UserIds : \E d \in SeedRevokes :
          user = [loaded |-> TRUE, at |-> 0,
                  value |-> UserGraph(u,
                     <<RoleWith(<<Permission("manage", "all", NullConditions)>>)>>, d)]
    /\ ability = NoAbility
    /\ lastQuery = NoQuery
    /\ requests = <<>>
    /\ templateCache = EmptyCache
    /\ db = NoDb
    /\ jwt = NoJwt

NextSeed == CreateAbility \/ Can \/ CanResource

SpecSeed == InitSeed /\ [][NextSeed]_vars

(***************************************************************************)
(* SpecRequest: two HTTP requests in flight on the posts endpoints.  Each  *)
(* passes PoliciesGuard.canActivate, which awaits the load of its user,    *)
(* and then its controller, which calls verifyPostAccess.  The code        *)
(* between two awaits runs without interruption.                           *)
(***************************************************************************)
Requests == {1, 2}

\* a policy handler: a function (ability) => ability.can(action, subject), or
\* an object whose handle(ability) does the same
PolicyHandler(kind, action, subject) ==
    [kind |-> kind, action |-> action, subject |-> subject]

\* the post a request names by id: none, or the post of an author
NoPost == [found |-> FALSE, authorId |-> 0]
PostOf(a) == [found |-> TRUE, authorId |-> a]

\* an endpoint: its @CheckPolicies handlers and the verifyPostAccess call of
\* its controller method, if it makes one
Endpoint(policies, verifies, action) ==
    [policies |-> policies, verifies |-> verifies, action |-> action]

Endpoints ==
    { Endpoint(<<>>, FALSE, "read"),
      Endpoint(<<PolicyHandler("function", "update", "Post")>>, TRUE, "update"),
      Endpoint(<<PolicyHandler("function", "delete", "Post")>>, TRUE, "delete"),
      Endpoint(<<PolicyHandler("function", "read", "Post"),
                 PolicyHandler("object", "delete", "Post")>>, FALSE, "read") }

\* the posts an endpoint may be asked about
PostsFor(endpoint) ==
    IF endpoint.verifies THEN {NoPost, PostOf(12)} ELSE {NoPost}

ManageAll == Permission("manage", "all", NullConditions)

\* the roles and claims of the users that send the requests
RequestGraphs ==
    { <<<<>>, <<>>>>,
      <<<<RoleWith(<<ManageAll>>)>>, <<>>>>,
      <<<<RoleWith(<<Permission("update", "Post", OwnerTemplate),
                     Permission("delete", "Post", OwnerTemplate),
                     Permission("read", "Post", NullConditions)>>)>>, <<>>>>,
      <<<<RoleWith(<<ManageAll>>)>>,
        <<RevokeOf(Permission("delete", "Post", OwnerTemplate), <<"sanctioned">>)>>>>,
      <<<<RoleWith(<<ManageAll>>)>>,
        <<RevokeOf(Permission("delete", "Post", NullConditions), NullReason)>>>>,
      <<<<RoleWith(<<Permission("update", "Post", SeedLiteralTemplate),
                     Permission("read", "Post", NullConditions)>>)>>,
        <<[permission |-> Permission("delete", "Post", OwnerTemplate),
           inverted |-> FALSE, reason |-> NullReason, expiresAt |-> NullDate]>>>> }

\* the row of user u with the roles and claims of graph g
RowOf(u, active, g) ==
    [id |-> u, email |-> Email, isActive |-> active, deletedAt |-> NullDate,
     roles |-> g[1], directPermissions |-> g[2]]

\* request.user of the JWT strategy (id 0: no user on the request) with the
\* row the database holds for it
Clients ==
    {[payload |-> 0, row |-> NoDbUser]}
    \cup {[payload |-> u, row |-> RowOf(u, TRUE, g)] : u \in UserIds, g \in RequestGraphs}
    \cup {[payload |-> 2, row |-> RowOf(2, FALSE, <<<<>>, <<>>>>)]}

NoResponse == [status |-> "pending", by |-> "none", reason |-> NullReason]
Response(status, by, reason) == [status |-> status, by |-> by, reason |-> reason]

\* a cloneDeepWith that writes the resolved leaves into the tree it was given
ConditionsAfterParse_InPlace(conditions, u) ==
    IF conditions.kind = "object"
    THEN ObjectConditions(parseConditions(conditions, u).fields)
    ELSE conditions

\* _.cloneDeepWith builds a new tree: the stored tree it was given keeps its
\* leaves
ConditionsAfterParse(conditions, u) == conditions

\* the user object after createAbility has gone through it
UserAfterBuild(u) ==
    IF u.isNull THEN u
    ELSE [u EXCEPT
            !.roles = [i \in 1..Len(u.roles) |->
                [u.roles[i] EXCEPT !.role.permissions =
                    [j \in 1..Len(u.roles[i].role.permissions) |->
                        [permission |->
                            [u.roles[i].role.permissions[j].permission EXCEPT
                                !.conditions = ConditionsAfterParse(@, u)]]]]],
            !.directPermissions = [i \in 1..Len(u.directPermissions) |->
                [u.directPermissions[i] EXCEPT
                    !.permission.conditions = ConditionsAfterParse(@, u)]]]

\* execPolicyHandler(handler, ability)
execPolicyHandler(handler, rules) ==
    IF handler.kind = "function"
    THEN can(rules, handler.action, TypeSubject(handler.subject))
    ELSE can(rules, handler.action, TypeSubject(handler.subject))

\* policyHandlers.some(...) in place of every
policiesAllowed_Some(handlers, rules) ==
    \E i \in 1..Len(handlers) : execPolicyHandler(handlers[i], rules)

\* policyHandlers.every((handler) => this.execPolicyHandler(handler, ability))
policiesAllowed(handlers, rules) ==
    \A i \in 1..Len(handlers) : execPolicyHandler(handlers[i], rules)

\* messages of the exceptions
GuardForbidden == <<"No tienes permiso para realizar esta accion">>
UserNotFound == <<"Usuario no encontrado o inactivo">>
NotTheAuthor == <<"No eres el autor de este post">>
DeniedByPolicy == <<"Permiso denegado por politica de seguridad">>
PostNotFound == <<"Post no encontrado">>

\* verifyPostAccess without its if (!user) throw
verifyPostAccess_NoUserCheck(row, userId, post, action, t) ==
    IF ~post.found THEN Response("notfound", "service", PostNotFound)
    ELSE LET u == getUserWithPermissions(row, userId, t)
         IN  IF createAbilityThrows(u) THEN Response("error", "service", NullReason)
             ELSE IF ~can(createAbility(u), action, PostInstance(post.authorId, TRUE))
                  THEN Response("forbidden", "service",
                           IF post.authorId # u.id THEN NotTheAuthor
                           ELSE DeniedByPolicy)
             ELSE Response("ok", "service", NullReason)

\* verifyPostAccess that loads the user before it looks for the post
verifyPostAccess_UserFirst(row, userId, post, action, t) ==
    LET u == getUserWithPermissions(row, userId, t)
    IN  IF u.isNull THEN Response("forbidden", "service", UserNotFound)
        ELSE IF ~post.found THEN Response("notfound", "service", PostNotFound)
        ELSE IF createAbilityThrows(u) THEN Response("error", "service", NullReason)
        ELSE IF ~can(createAbility(u), action, PostInstance(post.authorId, TRUE))
             THEN Response("forbidden", "service",
                      IF post.authorId # u.id THEN NotTheAuthor ELSE DeniedByPolicy)
        ELSE Response("ok", "service", NullReason)

\* AuthorizationService.verifyPostAccess(userId, postId, action): its result
\* or the exception it throws
verifyPostAccess(row, userId, post, action, t) ==
    IF ~post.found THEN Response("notfound", "service", PostNotFound)
    ELSE LET u == getUserWithPermissions(row, userId, t)
         IN  IF u.isNull THEN Response("forbidden", "service", UserNotFound)
             ELSE IF createAbilityThrows(u) THEN Response("error", "service", NullReason)
             ELSE IF ~can(createAbility(u), action, PostInstance(post.authorId, TRUE))
                  THEN Response("forbidden", "service",
                           IF post.authorId # u.id THEN NotTheAuthor
                           ELSE DeniedByPolicy)
             ELSE Response("ok", "service", NullReason)

NewRequest(client, endpoint, post) ==
    [pc |-> "guard", payload |-> client.payload, row |-> client.row,
     endpoint |-> endpoint, post |-> post, user |-> NoUser,
     ability |-> NoAbility, response |-> NoResponse, controllerRan |-> FALSE]

\* canActivate up to the end of its await: no request.user, or the load
CanActivateLoad(r) ==
    LET q == requests[r]
        loaded == getUserWithPermissions(q.row, q.payload, now)
    IN  /\ q.pc = "guard"
        /\ requests' =
              IF q.payload = 0 \/ loaded.isNull
              THEN [requests EXCEPT ![r].pc = "done",
                        ![r].response = Response("false", "guard", NullReason)]
              ELSE [requests EXCEPT ![r].pc = "loaded", ![r].user = loaded]
        /\ UNCHANGED <<now, dbUser, user, ability, lastQuery, templateCache, db, jwt>>

\* canActivate after the await: createAbility, the handlers, the verdict
CanActivateCheck(r) ==
    LET q == requests[r]
        rules == createAbility(q.user)
    IN  /\ q.pc = "loaded"
        /\ requests' =
              IF createAbilityThrows(q.user)
              THEN [requests EXCEPT ![r].pc = "done",
                        ![r].ability = [status |-> "threw", rules |-> <<>>],
                        ![r].response = Response("error", "guard", NullReason)]
              ELSE IF policiesAllowed(q.endpoint.policies, rules)
              THEN [requests EXCEPT ![r].pc = "controller",
                        ![r].user = UserAfterBuild(q.user),
                        ![r].ability = [status |-> "built", rules |-> rules]]
              ELSE [requests EXCEPT ![r].pc = "done",
                        ![r].user = UserAfterBuild(q.user),
                        ![r].ability = [status |-> "built", rules |-> rules],
                        ![r].response = Response("forbidden", "guard", GuardForbidden)]
        /\ templateCache' = CacheAfterBuild(templateCache, q.user)
        /\ UNCHANGED <<now, dbUser, user, ability, lastQuery, db, jwt>>

\* the controller method: verifyPostAccess where the endpoint calls it
ControllerMethod(r) ==
    LET q == requests[r]
        verified == getUserWithPermissions(q.row, q.payload, now)
    IN  /\ q.pc = "controller"
        /\ requests' =
              [requests EXCEPT ![r].pc = "done", ![r].controllerRan = TRUE,
                  ![r].response =
                      IF q.endpoint.verifies
                      THEN verifyPostAccess(q.row, q.payload, q.post,
                                            q.endpoint.action, now)
                      ELSE Response("ok", "controller", NullReason)]
        /\ templateCache' =
              IF q.endpoint.verifies /\ q.post.found
              THEN CacheAfterBuild(templateCache, verified)
              ELSE templateCache
        /\ UNCHANGED <<now, dbUser, user, ability, lastQuery, db, jwt>>

InitRequest ==
    /\ now = 0
    /\ dbUser = NoDbUser
    /\ user = [loaded |-> FALSE, at |-> 0, value |-> NoUser]
    /\ ability = NoAbility
    /\ lastQuery = NoQuery
    /\ \E c1 \in Clients, c2 \in Clients :
       \E e1 \in Endpoints, e2 \in Endpoints :
       \E p1 \in PostsFor(e1), p2 \in PostsFor(e2) :
          requests = [r \in Requests |->
                        IF r = 1 THEN NewRequest(c1, e1, p1)
                        ELSE NewRequest(c2, e2, p2)]
    /\ templateCache = EmptyCache
    /\ db = NoDb
    /\ jwt = NoJwt

NextRequest ==
    \E r \in Requests :
        CanActivateLoad(r) \/ CanActivateCheck(r) \/ ControllerMethod(r)

SpecRequest == InitRequest /\ [][NextRequest]_vars

(***************************************************************************)
(* SpecApi: requests on POST /posts, PATCH /posts/:id and DELETE           *)
(* /posts/:id against the User and Post tables, while time passes and      *)
(* users are soft-deleted.  A step ends at the database call a handler     *)
(* awaits; what follows the await runs with the value that was read.       *)
(***************************************************************************)
PostIds == 1..MaxPosts

\* a row of the Post table, or its absence; creator records the
\* authenticated user whose request inserted the row
NoPostRow == [exists |-> FALSE, authorId |-> 0, title |-> 0, creator |-> 0]
PostRow(a, t, c) == [exists |-> TRUE, authorId |-> a, title |-> t, creator |-> c]

\* the methods of PostsController that write
Methods == {"create", "update", "remove"}

\* the action of the @CheckPolicies handler and of verifyPostAccess
ActionOf(method) ==
    IF method = "create" THEN "create"
    ELSE IF method = "update" THEN "update" ELSE "delete"

HandlersOf(method) == <<PolicyHandler("function", ActionOf(method), "Post")>>

\* request bodies.  create: Prisma.PostUncheckedCreateInput with an authorId
\* of the client's choice; update: Prisma.PostUpdateInput, whose fields are
\* the columns of Post, with a title or with an authorId; remove: none
NoBody == [title |-> 0, authorId |-> 0]
BodiesFor(method) ==
    IF method = "create" THEN {[title |-> 1, authorId |-> 999]}
    ELSE IF method = "update"
         THEN {[title |-> 2, authorId |-> 0], [title |-> 0, authorId |-> 12]}
    ELSE {NoBody}

PostIdsFor(method) == IF method = "create" THEN {0} ELSE PostIds

\* this.postsService.create({ ...createPostDto, authorId: user.id })
CreateData(body, userId) == [body EXCEPT !.authorId = userId]

\* prisma.post.update({ where: { id }, data }) on the row
PostAfterUpdate(post, data) ==
    [post EXCEPT !.title = IF data.title # 0 THEN data.title ELSE @,
                 !.authorId = IF data.authorId # 0 THEN data.authorId ELSE @]

\* the EDITOR role with the ownership template, assigned until e
EditorRole(e) ==
    [RoleWith(<<Permission("create", "Post", NullConditions),
                Permission("update", "Post", OwnerTemplate),
                Permission("delete", "Post", OwnerTemplate)>>)
        EXCEPT !.expiresAt = e]

\* the User table: the editor 2, whose role may have an expiry date, and
\* the administrator 12, who may be deactivated
UserTables ==
    { [u \in UserIds |->
          IF u = 2 THEN RowOf(2, TRUE, <<<<EditorRole(e)>>, <<>>>>)
          ELSE RowOf(12, a, <<<<RoleWith(<<ManageAll>>)>>, <<>>>>)] :
        e \in {NullDate, <<MaxTime>>}, a \in BOOLEAN }

\* the Post table: post 1 of the editor; the other ids are free
FirstPosts == [p \in PostIds |-> IF p = 1 THEN PostRow(2, 1, 2) ELSE NoPostRow]

\* what the request remembers between its awaits, and what happened to it
IdleRequest ==
    [pc |-> "idle", payload |-> 0, method |-> "create", postId |-> 0,
     body |-> NoBody, post |-> NoPostRow, response |-> NoResponse,
     afterRemoval |-> FALSE, abilities |-> 0, handlersRan |-> FALSE,
     guardAccepted |-> FALSE, controllerRan |-> FALSE,
     verifyAccepted |-> FALSE, wrote |-> FALSE]

\* the row of the user with that id, if the table has one
UserRowOf(users, userId) == IF userId \in DOMAIN users THEN users[userId] ELSE NoDbUser

\* an exception ends the handler: what follows the await does not run
Throws_Swallowed(response) == FALSE
Throws(response) == response.status # "ok"

\* the request.user of the requests on a method: no user at all is tried
\* on POST /posts
ClientsOf(method) == IF method = "create" THEN {0} \cup UserIds ELSE UserIds

\* a request arrives with the request.user of the JWT strategy (0: none)
Receive(r) ==
    /\ requests[r].pc = "idle"
    /\ \E m \in Methods : \E c \in ClientsOf(m) :
       \E p \in PostIdsFor(m), b \in BodiesFor(m) :
          requests' = [requests EXCEPT ![r] =
              [IdleRequest EXCEPT !.pc = "guard", !.payload = c, !.method = m,
                  !.postId = p, !.body = b,
                  !.afterRemoval = (c # 0 /\ db.users[c].deletedAt # NullDate)]]
    /\ UNCHANGED <<now, dbUser, user, ability, lastQuery, templateCache, db, jwt>>

\* PoliciesGuard.canActivate
PoliciesGuardCanActivate(r) ==
    LET q == requests[r]
        loaded == getUserWithPermissions(UserRowOf(db.users, q.payload), q.payload, now)
        rules == createAbility(loaded)
    IN  /\ q.pc = "guard"
        /\ requests' =
              IF q.payload = 0 \/ loaded.isNull
              THEN [requests EXCEPT ![r].pc = "done",
                        ![r].response = Response("false", "guard", NullReason)]
              ELSE IF createAbilityThrows(loaded)
              THEN [requests EXCEPT ![r].pc = "done", ![r].abilities = @ + 1,
                        ![r].response = Response("error", "guard", NullReason)]
              ELSE IF policiesAllowed(HandlersOf(q.method), rules)
              THEN [requests EXCEPT ![r].pc = "controller", ![r].abilities = @ + 1,
                        ![r].handlersRan = TRUE, ![r].guardAccepted = TRUE]
              ELSE [requests EXCEPT ![r].pc = "done", ![r].abilities = @ + 1,
                        ![r].handlersRan = TRUE,
                        ![r].response = Response("forbidden", "guard", GuardForbidden)]
        /\ templateCache' =
              IF q.payload = 0 \/ loaded.isNull THEN templateCache
              ELSE CacheAfterBuild(templateCache, loaded)
        /\ UNCHANGED <<now, dbUser, user, ability, lastQuery, db, jwt>>

\* PostsController.create: postsService.create inserts the row
PostsControllerCreate(r) ==
    LET q == requests[r]
        data == CreateData(q.body, q.payload)
    IN  /\ q.pc = "controller" /\ q.method = "create"
        /\ db.nextId <= MaxPosts
        /\ db' = [db EXCEPT !.posts[db.nextId] = PostRow(data.authorId, data.title, q.payload),
                            !.nextId = @ + 1]
        /\ requests' = [requests EXCEPT ![r].pc = "done", ![r].controllerRan = TRUE,
                            ![r].wrote = TRUE, ![r].postId = db.nextId,
                            ![r].response = Response("ok", "controller", NullReason)]
        /\ UNCHANGED <<now, dbUser, user, ability, lastQuery, templateCache, jwt>>

\* verifyPostAccess up to its first await: prisma.post.findUnique
VerifyFindPost(r) ==
    LET q == requests[r]
        post == db.posts[q.postId]
        found == IF post.exists THEN PostOf(post.authorId) ELSE NoPost
        thrown == verifyPostAccess(UserRowOf(db.users, q.payload), q.payload, found,
                                   ActionOf(q.method), now)
    IN  /\ q.pc = "controller" /\ q.method # "create"
        /\ requests' =
              IF ~found.found /\ Throws(thrown)
              THEN [requests EXCEPT ![r].pc = "done", ![r].controllerRan = TRUE,
                        ![r].response = thrown]
              ELSE [requests EXCEPT ![r].pc = "verifyUser", ![r].controllerRan = TRUE,
                        ![r].post = post]
        /\ UNCHANGED <<now, dbUser, user, ability, lastQuery, templateCache, db, jwt>>

\* verifyPostAccess from getUserWithPermissions to its return or throw
VerifyUser(r) ==
    LET q == requests[r]
        row == UserRowOf(db.users, q.payload)
        loaded == getUserWithPermissions(row, q.payload, now)
        result == verifyPostAccess(row, q.payload, PostOf(q.post.authorId),
                                   ActionOf(q.method), now)
    IN  /\ q.pc = "verifyUser"
        /\ requests' =
              IF Throws(result)
              THEN [requests EXCEPT ![r].pc = "done", ![r].response = result,
                        ![r].abilities = IF loaded.isNull THEN @ ELSE @ + 1]
              ELSE [requests EXCEPT ![r].pc = "findOne",
                        ![r].verifyAccepted = (result.status = "ok"),
                        ![r].abilities = IF loaded.isNull THEN @ ELSE @ + 1]
        /\ templateCache' =
              IF loaded.isNull THEN templateCache
              ELSE CacheAfterBuild(templateCache, loaded)
        /\ UNCHANGED <<now, dbUser, user, ability, lastQuery, db, jwt>>

\* PostsService.update / remove up to their await: this.findOne(id)
PostsServiceFindOne(r) ==
    LET q == requests[r]
    IN  /\ q.pc = "findOne"
        /\ requests' =
              IF db.posts[q.postId].exists
              THEN [requests EXCEPT ![r].pc = "write"]
              ELSE [requests EXCEPT ![r].pc = "done",
                        ![r].response = Response("notfound", "posts", PostNotFound)]
        /\ UNCHANGED <<now, dbUser, user, ability, lastQuery, templateCache, db, jwt>>

\* prisma.post.update({ where: { id }, data }) / prisma.post.delete; both
\* reject when the row is gone
PostsServiceWrite(r) ==
    LET q == requests[r]
        post == db.posts[q.postId]
    IN  /\ q.pc = "write"
        /\ IF ~post.exists
           THEN /\ requests' = [requests EXCEPT ![r].pc = "done",
                                   ![r].response = Response("error", "posts", NullReason)]
                /\ db' = db
           ELSE /\ requests' = [requests EXCEPT ![r].pc = "done", ![r].wrote = TRUE,
                                   ![r].response = Response("ok", "posts", NullReason)]
                /\ db' = [db EXCEPT !.posts[q.postId] =
                              IF q.method = "update" THEN PostAfterUpdate(post, q.body)
                              ELSE NoPostRow]
        /\ UNCHANGED <<now, dbUser, user, ability, lastQuery, templateCache, jwt>>

\* UsersService.remove(id): data: { deletedAt: new Date() }
UsersServiceRemove(id) ==
    /\ db' = [db EXCEPT !.users[id].deletedAt = <<now>>]
    /\ db' # db
    /\ UNCHANGED <<now, dbUser, user, ability, lastQuery, requests, templateCache, jwt>>

InitApi ==
    /\ now = 0
    /\ dbUser = NoDbUser
    /\ user = [loaded |-> FALSE, at |-> 0, value |-> NoUser]
    /\ ability = NoAbility
    /\ lastQuery = NoQuery
    /\ requests = [r \in Requests |-> IdleRequest]
    /\ templateCache = EmptyCache
    /\ \E users \in UserTables :
          db = [users |-> users, posts |-> FirstPosts, nextId |-> 2]
    /\ jwt = NoJwt

NextApi ==
    \/ Tick
    \/ \E id \in UserIds : UsersServiceRemove(id)
    \/ \E r \in Requests :
          \/ Receive(r)
          \/ PoliciesGuardCanActivate(r)
          \/ PostsControllerCreate(r)
          \/ VerifyFindPost(r)
          \/ VerifyUser(r)
          \/ PostsServiceFindOne(r)
          \/ PostsServiceWrite(r)

SpecApi == InitApi /\ [][NextApi]_vars

(***************************************************************************)
(* SpecAuth: login, logout and requests that present a token to the        *)
(* global JwtAuthGuard, as time passes.                                    *)
(***************************************************************************)
\* signOptions: { expiresIn: '1h' }, in units of the clock
TokenLife == 1

\* no token in the cookie or in the header
NoToken == [sub |-> 0, exp |-> 0]

\* this.jwtService.sign({ email, sub: user.id }) at the instant t
sign(userId, t) == [sub |-> userId, exp |-> t + TokenLife]

\* jwtFromRequest: the cookie extractor first, then the Bearer header
jwtFromRequest(req) == IF req.cookie # NoToken THEN req.cookie ELSE req.bearer

\* the strategy with ignoreExpiration: true
verifyJwt_IgnoreExpiration(token, t) == token # NoToken

\* passport-jwt with ignoreExpiration: false: a token signed with the
\* secret whose exp is still ahead
verifyJwt(token, t) == token # NoToken /\ t < token.exp

\* what a client can send: in the cookie and in the Authorization header,
\* nothing or a token it was once given
Presentations(known) ==
    {[cookie |-> c, bearer |-> b] : c \in {NoToken} \cup known,
                                   b \in {NoToken} \cup known}

\* the non-public endpoints asked: GET /users/me and POST /auth/logout
AuthEndpoints == {"me", "logout"}

IdleAuthRequest ==
    [pc |-> "idle", endpoint |-> "me", token |-> NoToken, authenticated |-> FALSE,
     handlerRan |-> FALSE, afterLogout |-> FALSE, status |-> "pending"]

\* AuthenticationController.login with valid credentials: the token is
\* signed and set as the cookie of the response
Login(u) ==
    LET token == sign(u, now)
    IN  /\ jwt' = [jwt EXCEPT !.issued = @ \cup {token}, !.cookie[u] = token]
        /\ jwt' # jwt
        /\ UNCHANGED <<now, dbUser, user, ability, lastQuery, requests, templateCache, db>>

\* a request to a non-public endpoint: JwtAuthGuard.canActivate, then the
\* handler; logout() does nothing and the controller clears the cookie
AuthRequest(r) ==
    /\ requests[r].pc = "idle"
    /\ \E e \in AuthEndpoints, req \in Presentations(jwt.issued) :
          LET token == jwtFromRequest(req)
              valid == verifyJwt(token, now)
          IN  /\ requests' = [requests EXCEPT ![r] =
                    [pc |-> "done", endpoint |-> e, token |-> token,
                     authenticated |-> valid, handlerRan |-> valid,
                     afterLogout |-> token \in jwt.loggedOut,
                     status |-> IF valid THEN "ok" ELSE "unauthorized"]]
              /\ jwt' = IF valid /\ e = "logout"
                        THEN [jwt EXCEPT !.cookie[token.sub] = NoToken,
                                         !.loggedOut = @ \cup {token}]
                        ELSE jwt
    /\ UNCHANGED <<now, dbUser, user, ability, lastQuery, templateCache, db>>

InitAuth ==
    /\ now = 0
    /\ dbUser = NoDbUser
    /\ user = [loaded |-> FALSE, at |-> 0, value |-> NoUser]
    /\ ability = NoAbility
    /\ lastQuery = NoQuery
    /\ requests = [r \in Requests |-> IdleAuthRequest]
    /\ templateCache = EmptyCache
    /\ \E users \in UserTables :
          db = [users |-> users, posts |-> FirstPosts, nextId |-> 2]
    /\ jwt = [issued |-> {}, cookie |-> [u \in UserIds |-> NoToken], loggedOut |-> {}]

NextAuth ==
    \/ Tick
    \/ \E u \in UserIds : Login(u)
    \/ \E r \in Requests : AuthRequest(r)

SpecAuth == InitAuth /\ [][NextAuth]_vars

(***************************************************************************)
(* Vocabulary of the properties, stated on the graph and on the rule list  *)
(* without the evaluator's own operators.                                  *)
(***************************************************************************)
Unconditional(p) == p.conditions.kind # "object"

\* a permission or rule on (action, subject) speaks of the query (a, t)
Covers(action, subject, a, t) ==
    /\ action = a \/ action = "manage"
    /\ subject = t \/ subject = "all"

\* the permissions the roles of u hold
RolePermissionsOf(u) ==
    UNION { {u.roles[i].role.permissions[j].permission :
                j \in 1..Len(u.roles[i].role.permissions)} :
            i \in 1..Len(u.roles) }

GrantsOf(u) ==
    {u.directPermissions[i].permission :
        i \in {k \in 1..Len(u.directPermissions) : ~u.directPermissions[k].inverted}}

RevokesOf(u) ==
    {u.directPermissions[i].permission :
        i \in {k \in 1..Len(u.directPermissions) : u.directPermissions[k].inverted}}

\* the condition of a rule holds of the queried resource instance
ConditionHolds(rule, subject) ==
    \A i \in 1..Len(rule.conditions.fields) :
       LET e == rule.conditions.fields[i]
           v == FieldValue(subject.attrs, e.field)
       IN  IF e.op = "$ne" THEN v # e.value ELSE v = e.value

Asked == lastQuery.asked
Built == ability.status = "built"
QAction == lastQuery.action
QType == lastQuery.subject.type

(***************************************************************************)
(* C1. If a role grants (A, T) without condition and the user has a direct *)
(* revoke of (A, T) without condition, can(A, T) is false, whatever else   *)
(* the graph holds.                                                        *)
(***************************************************************************)
C1_Premise(u, a, t) ==
    /\ \E p \in RolePermissionsOf(u) :
          p.action = a /\ p.subject = t /\ Unconditional(p)
    /\ \E p \in RevokesOf(u) :
          p.action = a /\ p.subject = t /\ Unconditional(p)

C1_RevokeBeatsRoleGrant ==
    Asked /\ C1_Premise(user.value, QAction, QType) => ~lastQuery.result

\* the revoked permission is also granted directly, and asked of an instance
C1_Witness ==
    /\ Asked /\ C1_Premise(user.value, QAction, QType)
    /\ \E p \in GrantsOf(user.value) : Covers(p.action, p.subject, QAction, QType)
    /\ ~lastQuery.subject.isType
    /\ ~lastQuery.result

(***************************************************************************)
(* C2. can(action, subject) is the result of the forward scan of the rules *)
(* in stored order in which the last matching rule decides and no match    *)
(* means Deny.  As claimed, a rule with a condition matches only a         *)
(* resource instance satisfying it; as amended, a rule with a condition    *)
(* also matches a bare type when it is an Allow rule.                      *)
(***************************************************************************)
\* the match of the claim: type, action, and the condition on an instance
ClaimedMatch(rule, action, subject) ==
    /\ Covers(rule.action, rule.subject, action, subject.type)
    /\ \/ ~rule.conditions.defined
       \/ ~subject.isType /\ ConditionHolds(rule, subject)

\* the amended match: on a bare type an Allow rule with a condition matches
AmendedMatch(rule, action, subject) ==
    /\ Covers(rule.action, rule.subject, action, subject.type)
    /\ \/ ~rule.conditions.defined
       \/ subject.isType /\ ~rule.inverted
       \/ ~subject.isType /\ ConditionHolds(rule, subject)

\* the forward scan: Allow iff the last matching rule is an Allow rule
LastMatchAllows(rules, Match(_, _, _), action, subject) ==
    LET hits == {i \in 1..Len(rules) : Match(rules[i], action, subject)}
    IN  /\ hits # {}
        /\ ~rules[CHOOSE i \in hits : \A j \in hits : j <= i].inverted

RECURSIVE RoleOffset(_, _)
RoleOffset(u, i) ==
    IF i <= 1 THEN 0
    ELSE RoleOffset(u, i - 1) + Len(u.roles[i - 1].role.permissions)

\* the number of claims with the given inverted flag among the first k
ClaimRank(u, inv, k) ==
    Cardinality({j \in 1..k : u.directPermissions[j].inverted = inv})

RuleIs(rule, p, inv, u) ==
    /\ rule.action = p.action
    /\ rule.subject = p.subject
    /\ rule.inverted = inv
    /\ rule.conditions = parseConditions(p.conditions, u)

C3_RulesAreTheConcatenation ==
    Built /\ ~user.value.isNull =>
        LET u == user.value
            rules == ability.rules
            nRole == RoleOffset(u, Len(u.roles) + 1)
            nClaim == Len(u.directPermissions)
            nGrant == ClaimRank(u, FALSE, nClaim)
        IN  /\ Len(rules) = nRole + nClaim
            /\ \A i \in 1..Len(u.roles) :
                  \A j \in 1..Len(u.roles[i].role.permissions) :
                     RuleIs(rules[RoleOffset(u, i) + j],
                            u.roles[i].role.permissions[j].permission, FALSE, u)
            /\ \A k \in 1..nClaim :
                  LET dp == u.directPermissions[k]
                  IN  IF dp.inverted
                      THEN RuleIs(rules[nRole + nGrant + ClaimRank(u, TRUE, k)],
                                  dp.permission, TRUE, u)
                      ELSE RuleIs(rules[nRole + ClaimRank(u, FALSE, k)],
                                  dp.permission, FALSE, u)
            /\ \A i \in 1..Len(rules) : \A j \in i..Len(rules) :
                  rules[i].inverted => rules[j].inverted

\* two roles, a grant that repeats a role permission, and a revoke
C3_Witness ==
    /\ Built
    /\ Len(user.value.roles) >= 1
    /\ GrantsOf(user.value) \cap RolePermissionsOf(user.value) # {}
    /\ RevokesOf(user.value) # {}
    /\ Len(ability.rules) = MaxRules
    /\ \E i \in 1..Len(ability.rules) : \E j \in (i + 1)..Len(ability.rules) :
          ability.rules[i] = ability.rules[j]

(***************************************************************************)
(* C4. With no role assignment and no direct claim, can(action, subject)   *)
(* is false for every action and every subject.                            *)
(***************************************************************************)
C4_EmptyGraphDeniesAll ==
    Asked /\ user.value.roles = <<>> /\ user.value.directPermissions = <<>>
        => ~lastQuery.result

C4_Witness ==
    /\ Asked /\ ~user.value.isNull
    /\ user.value.roles = <<>> /\ user.value.directPermissions = <<>>
    /\ ~lastQuery.subject.isType
    /\ ~lastQuery.result

(***************************************************************************)
(* C5. A query on a bare type when the only Allow rules on (action, type)  *)
(* carry a condition.  As claimed, can(action, 'Post') is then false; as   *)
(* amended, it is true unless a Deny rule without condition is on          *)
(* (action, type) too: an Allow rule with a condition satisfies a bare     *)
(* type query.                                                             *)
(***************************************************************************)
\* there are Allow rules on the query and each carries a condition
C5_Premise ==
    /\ Asked /\ lastQuery.subject.isType
    /\ \E i \in 1..Len(ability.rules) :
          /\ ~ability.rules[i].inverted
          /\ Covers(ability.rules[i].action, ability.rules[i].subject, QAction, QType)
    /\ \A i \in 1..Len(ability.rules) :
          /\ ~ability.rules[i].inverted
          /\ Covers(ability.rules[i].action, ability.rules[i].subject, QAction, QType)
          => ability.rules[i].conditions.defined

CoveringRevokes(u, a, t) ==
    {k \in 1..Len(u.directPermissions) :
        /\ u.directPermissions[k].inverted
        /\ Covers(u.directPermissions[k].permission.action,
                  u.directPermissions[k].permission.subject, a, t)}

C6_Premise(u, a, t) ==
    /\ ~u.isNull
    /\ \E p \in RolePermissionsOf(u) :
          p.action = a /\ p.subject = t /\ Unconditional(p)
    /\ Cardinality(CoveringRevokes(u, a, t)) = 1
    /\ \A k \in CoveringRevokes(u, a, t) :
          ~Unconditional(u.directPermissions[k].permission)

C6_ConditionalRevokeSkipsTypeQuery ==
    Asked /\ C6_Premise(user.value, QAction, QType) =>
        LET u == user.value
            k == CHOOSE k \in CoveringRevokes(u, QAction, QType) : TRUE
            revoke == CannotRule(u.directPermissions[k], u)
        IN  IF lastQuery.subject.isType THEN lastQuery.result
            ELSE lastQuery.result = ~ConditionHolds(revoke, lastQuery.subject)

C6_Witness ==
    /\ Asked /\ C6_Premise(user.value, QAction, QType)
    /\ lastQuery.subject.isType
    /\ lastQuery.result

(***************************************************************************)
(* C7. For a user with id u whose only rules on (update, Post) are Allow   *)
(* rules with the template {authorId: "{{id}}"}, can(update, p) is true    *)
(* iff p.authorId = u, for every Post instance p.                          *)
(***************************************************************************)
C7_Premise(u) ==
    /\ ~u.isNull
    /\ \E p \in RolePermissionsOf(u) \cup GrantsOf(u) :
          Covers(p.action, p.subject, "update", "Post")
    /\ \A p \in RolePermissionsOf(u) \cup GrantsOf(u) :
          Covers(p.action, p.subject, "update", "Post")
          => p = Permission("update", "Post", OwnerTemplate)
    /\ \A p \in RevokesOf(u) : ~Covers(p.action, p.subject, "update", "Post")

C7_OwnerMayUpdate ==
    /\ Asked /\ C7_Premise(user.value)
    /\ QAction = "update" /\ QType = "Post" /\ ~lastQuery.subject.isType
    => lastQuery.result =
          (FieldValue(lastQuery.subject.attrs, "authorId") = Num(user.value.id))

\* user 12 may update the post user 12 wrote
C7_Witness ==
    /\ Asked /\ C7_Premise(user.value)
    /\ QAction = "update" /\ QType = "Post" /\ ~lastQuery.subject.isType
    /\ user.value.id = 12
    /\ lastQuery.result

(***************************************************************************)
(* C8. In the ability built for a loaded user no rule derives from a role  *)
(* assignment whose expiresAt lies in the past or whose role is inactive:  *)
(* the rules start with the permissions of the other assignments, in       *)
(* order, and the rest are the live claims; a permission granted only      *)
(* through lapsed assignments yields can() = false.                        *)
(***************************************************************************)
\* a date that is set and not after the instant t of the load
Past(expiresAt, t) == expiresAt # NullDate /\ expiresAt[1] <= t

Lapsed(ur, t) == ~ur.role.isActive \/ Past(ur.expiresAt, t)

\* the permissions of the assignments of row that have not lapsed, in order
RECURSIVE StandingRolePermissions(_, _, _)
StandingRolePermissions(row, i, t) ==
    IF i > Len(row.roles) THEN <<>>
    ELSE (IF Lapsed(row.roles[i], t) THEN <<>>
          ELSE [j \in 1..Len(row.roles[i].role.permissions) |->
                   row.roles[i].role.permissions[j].permission])
         \o StandingRolePermissions(row, i + 1, t)

\* the claims of row that are live at t, by index, with the given flag
LiveClaims(row, inv, t) ==
    {k \in 1..Len(row.directPermissions) :
        /\ row.directPermissions[k].inverted = inv
        /\ ~Past(row.directPermissions[k].expiresAt, t)}

C8_LapsedRolesYieldNoRule ==
    Built =>
        LET standing == StandingRolePermissions(dbUser, 1, user.at)
            rules == ability.rules
        IN  /\ Len(rules) = Len(standing)
                            + Cardinality(LiveClaims(dbUser, FALSE, user.at))
                            + Cardinality(LiveClaims(dbUser, TRUE, user.at))
            /\ \A i \in 1..Len(standing) : RuleIs(rules[i], standing[i], FALSE, user.value)
            /\ ( /\ Asked
                 /\ \A i \in 1..Len(standing) :
                       ~Covers(standing[i].action, standing[i].subject, QAction, QType)
                 /\ \A k \in LiveClaims(dbUser, FALSE, user.at) :
                       ~Covers(dbUser.directPermissions[k].permission.action,
                               dbUser.directPermissions[k].permission.subject,
                               QAction, QType)
                 => ~lastQuery.result )

\* the query is covered by an active role whose assignment expired before the
\* load and by an inactive role, and by nothing else
C8_Witness ==
    /\ Asked /\ ~lastQuery.result
    /\ \E i \in 1..Len(dbUser.roles) :
          /\ dbUser.roles[i].role.isActive
          /\ dbUser.roles[i].expiresAt # NullDate
          /\ dbUser.roles[i].expiresAt[1] < user.at
          /\ \E j \in 1..Len(dbUser.roles[i].role.permissions) :
                Covers(dbUser.roles[i].role.permissions[j].permission.action,
                       dbUser.roles[i].role.permissions[j].permission.subject,
                       QAction, QType)
    /\ \E i \in 1..Len(dbUser.roles) :
          /\ ~dbUser.roles[i].role.isActive
          /\ \E j \in 1..Len(dbUser.roles[i].role.permissions) :
                Covers(dbUser.roles[i].role.permissions[j].permission.action,
                       dbUser.roles[i].role.permissions[j].permission.subject,
                       QAction, QType)
    /\ ability.rules = <<>>

(***************************************************************************)
(* C9. Only the direct claims whose expiresAt is null or in the future     *)
(* produce a rule: the Allow rules after the role rules are the live       *)
(* grants and the Deny rules are the live revokes, so a permission held    *)
(* through a role without condition is allowed exactly when no live revoke *)
(* without condition covers it, and is allowed again once the revokes      *)
(* have expired.                                                           *)
(***************************************************************************)
RulesWith(rules, inv) == {i \in 1..Len(rules) : rules[i].inverted = inv}

C9_ExpiredClaimsYieldNoRule ==
    Built =>
        LET standing == StandingRolePermissions(dbUser, 1, user.at)
            rules == ability.rules
            live(inv) == LiveClaims(dbUser, inv, user.at)
        IN  /\ Cardinality(RulesWith(rules, TRUE)) = Cardinality(live(TRUE))
            /\ Cardinality(RulesWith(rules, FALSE))
                  = Len(standing) + Cardinality(live(FALSE))
            /\ \A i \in 1..Len(rules) :
                  i > Len(standing) =>
                     \E k \in live(rules[i].inverted) :
                        RuleIs(rules[i], dbUser.directPermissions[k].permission,
                               rules[i].inverted, user.value)
            /\ ( /\ Asked
                 /\ \E i \in 1..Len(standing) :
                       /\ Unconditional(standing[i])
                       /\ Covers(standing[i].action, standing[i].subject, QAction, QType)
                 /\ \A k \in live(TRUE) :
                       Unconditional(dbUser.directPermissions[k].permission)
                 => lastQuery.result =
                       ~\E k \in live(TRUE) :
                           Covers(dbUser.directPermissions[k].permission.action,
                                  dbUser.directPermissions[k].permission.subject,
                                  QAction, QType) )

\* the revoke of a role's permission expired before the load: allowed again
C9_Witness ==
    /\ Asked /\ lastQuery.result
    /\ \E k \in 1..Len(dbUser.directPermissions) :
          /\ dbUser.directPermissions[k].inverted
          /\ dbUser.directPermissions[k].expiresAt # NullDate
          /\ dbUser.directPermissions[k].expiresAt[1] < user.at
          /\ Covers(dbUser.directPermissions[k].permission.action,
                    dbUser.directPermissions[k].permission.subject, QAction, QType)
    /\ RulesWith(ability.rules, TRUE) = {}

(***************************************************************************)
(* C10. If the rule list holds an Allow rule on (manage, all) without      *)
(* condition, can(a, s) is true for every action and subject unless a      *)
(* later Deny rule matches the query (it covers the action and the type    *)
(* and has no condition or a condition the instance satisfies); rules that *)
(* do not match change nothing.                                            *)
(***************************************************************************)
IsManageAll(rule) ==
    /\ ~rule.inverted /\ rule.action = "manage" /\ rule.subject = "all"
    /\ ~rule.conditions.defined

C10_ManageAllUnlessLaterDeny ==
    Asked =>
        \A k \in 1..Len(ability.rules) :
            IsManageAll(ability.rules[k]) =>
                lastQuery.result =
                    ~\E j \in (k + 1)..Len(ability.rules) :
                        /\ ability.rules[j].inverted
                        /\ AmendedMatch(ability.rules[j], QAction, lastQuery.subject)

\* a later Deny rule that does not match the query leaves it allowed
C10_Witness ==
    /\ Asked
    /\ \E k \in 1..Len(ability.rules) :
          /\ IsManageAll(ability.rules[k])
          /\ \E j \in (k + 1)..Len(ability.rules) : ability.rules[j].inverted
    /\ lastQuery.result

(***************************************************************************)
(* C11. Wildcards match in one direction: a rule on subject 'all' matches  *)
(* a query on any subject type and a rule on action manage a query for any *)
(* action, but a rule on a concrete subject type never matches a query on  *)
(* 'all' and a rule on a concrete action never matches a query for manage. *)
(***************************************************************************)
\* the rule's action and subject, taken alone, admit the query
ActionAdmits(rule, action) ==
    IF action = "manage" THEN rule.action = "manage"
    ELSE rule.action = action \/ rule.action = "manage"

SubjectAdmits(rule, type) ==
    IF type = "all" THEN rule.subject = "all"
    ELSE rule.subject = type \/ rule.subject = "all"

C11_WildcardsAreOneDirectional ==
    /\ Asked /\ \A i \in 1..Len(ability.rules) : ~ability.rules[i].conditions.defined
    /\ ability.rules # <<>>
    => LET rules == ability.rules
           hits == {i \in 1..Len(rules) :
                       ActionAdmits(rules[i], QAction) /\ SubjectAdmits(rules[i], QType)}
       IN  /\ lastQuery.result =
                 (hits # {} /\ ~rules[CHOOSE i \in hits : \A j \in hits : j <= i].inverted)
           \* a sole rule on a concrete type or action and a wildcard query
           /\ Len(rules) = 1 /\ QType = "all" /\ rules[1].subject # "all"
                 => ~lastQuery.result
           /\ Len(rules) = 1 /\ QAction = "manage" /\ rules[1].action # "manage"
                 => ~lastQuery.result

\* with only the rule (read, Post), can(read, 'all') is false
C11_Witness ==
    /\ Asked /\ Len(ability.rules) = 1
    /\ ability.rules[1].action = "read" /\ ability.rules[1].subject = "Post"
    /\ ~ability.rules[1].conditions.defined
    /\ QAction = "read" /\ lastQuery.subject = TypeSubject("all")
    /\ ~lastQuery.result


(***************************************************************************)
(* C13. parseConditions renders every string leaf of the condition tree    *)
(* against the acting user and converts a rendered string made only of     *)
(* decimal digits to the number it writes ("{{id}}" gives the number id);  *)
(* any other rendered string stays a string; leaves that are not strings   *)
(* (booleans, numbers) and the operator maps around leaves are copied      *)
(* unchanged.                                                              *)
(***************************************************************************)
\* what the leaves of the stored templates resolve to for the user u
ExpectedLeaf(value, u) ==
    IF value.t # "str" THEN value
    ELSE IF value.s = <<"{", "{", "i", "d", "}", "}">> THEN Num(u.id)
    ELSE IF value.s = <<"{", "{", "u", "i", "d", "}", "}">> THEN Str(<<>>)
    ELSE IF value.s = <<"1", "2">> THEN Num(12)
    ELSE Str(value.s)

C13_LeavesRenderedAndCoerced ==
    Built =>
        LET perms == VisitedPermissions(user.value)
        IN  \A i \in 1..Len(perms) :
               perms[i].conditions.kind = "object" =>
                  LET stored == perms[i].conditions.fields
                      resolved == ability.rules[i].conditions
                  IN  /\ resolved.defined
                      /\ Len(resolved.fields) = Len(stored)
                      /\ \A k \in 1..Len(stored) :
                            /\ resolved.fields[k].field = stored[k].field
                            /\ resolved.fields[k].op = stored[k].op
                            /\ resolved.fields[k].value
                                  = ExpectedLeaf(stored[k].value, user.value)

\* {authorId: "{{id}}", isPublished: true} for user 12: the number 12 and true
C13_Witness ==
    /\ Built /\ user.value.id = 12 /\ Len(ability.rules) = 1
    /\ ability.rules[1].conditions =
          Resolved(<<Entry("authorId", "$eq", Num(12)),
                     Entry("isPublished", "$eq", Bool(TRUE))>>)

(***************************************************************************)
(* C14. Against a resource instance a field-value pair matches iff         *)
(* resource[field] equals the value, a field-{"$ne": value} pair iff       *)
(* resource[field] differs from the value, and a condition with several    *)
(* fields iff every field matches.                                         *)
(***************************************************************************)
\* the post satisfies the condition stored with permission p, for user u
PostSatisfies(post, p, u) ==
    \A k \in 1..Len(p.conditions.fields) :
       LET e == p.conditions.fields[k]
           expected == ExpectedLeaf(e.value, u)
           actual == FieldValue(post.attrs, e.field)
       IN  IF e.op = "$ne" THEN actual # expected ELSE actual = expected

C14_ConditionsMatchInstances ==
    /\ Asked /\ ~lastQuery.subject.isType
    /\ QAction = "read" /\ QType = "Post"
    => LET perms == VisitedPermissions(user.value)
           last == perms[Len(perms)]
           holds == PostSatisfies(lastQuery.subject, last, user.value)
           author == FieldValue(lastQuery.subject.attrs, "authorId")
       IN  /\ last.conditions.kind = "object" =>
                 IF Len(perms) = 1 THEN lastQuery.result = holds
                 ELSE lastQuery.result = ~holds
           /\ Len(perms) = 1 /\ last.conditions = NotOwnerTemplate
                 => lastQuery.result = (author # Num(user.value.id))
           /\ Len(perms) = 1 /\ last.conditions = OwnPublishedTemplate
                 => lastQuery.result =
                       /\ author = Num(user.value.id)
                       /\ FieldValue(lastQuery.subject.attrs, "isPublished") = Bool(TRUE)

\* {authorId: {"$ne": 12}} matches the post of author 999 and user 12 reads it
C14_Witness ==
    /\ Asked /\ Len(ability.rules) = 1 /\ user.value.id = 12
    /\ ability.rules[1].conditions = Resolved(<<Entry("authorId", "$ne", Num(12))>>)
    /\ QAction = "read"
    /\ lastQuery.subject = PostInstance(999, FALSE)
    /\ lastQuery.result


(***************************************************************************)
(* C15. Building an ability never fails on a malformed condition template: *)
(* a tag naming an attribute the user lacks renders as the empty string,   *)
(* text that is not a tag is kept, no exception is raised, and the rule    *)
(* never grants access to a resource with a numeric authorId.              *)
(***************************************************************************)
\* the stored condition is one of the malformed templates
Malformed(conditions) ==
    conditions \in {SeedLiteralTemplate, UnknownTagTemplate, UnclosedTagTemplate}

C15_BuildNeverFailsOnTemplate ==
    LET perms == VisitedPermissions(user.value)
    IN  /\ ability.status # "none"
        /\ Len(perms) = 1 /\ Malformed(perms[1].conditions)
        => /\ ability.status = "built"
           /\ ability.rules[1].conditions.fields[1].value.t = "str"
           /\ Asked /\ ~lastQuery.subject.isType => ~lastQuery.result


(***************************************************************************)
(* C12. When the decision on (action, subject) is Deny because the last    *)
(* matching rule is the Deny rule of a direct revoke, the reason of the    *)
(* decision is that revoke's reason, and the denial reported to the caller *)
(* of a post check carries it.                                             *)
(***************************************************************************)
\* the index of the last rule that matches the query, 0 when none does
LastMatching(rules, action, subject) ==
    LET hits == {i \in 1..Len(rules) : AmendedMatch(rules[i], action, subject)}
    IN  IF hits = {} THEN 0 ELSE CHOOSE i \in hits : \A j \in hits : j <= i

C12_DenialCarriesRevokeReason ==
    \A r \in Requests :
       LET q == requests[r]
           k == LastMatching(q.ability.rules, q.endpoint.action,
                             PostInstance(q.post.authorId, TRUE))
       IN  /\ q.response.status = "forbidden" /\ q.response.by = "service"
           /\ k # 0 /\ q.ability.rules[k].inverted
           => q.response.reason = q.ability.rules[k].reason


(***************************************************************************)
(* C16. Determinism: the abilities built from two structurally equal user  *)
(* graphs hold the same rules and give the same answers; two requests of   *)
(* the same user on the same endpoint and post end with the same response, *)
(* whichever is served first.                                              *)
(***************************************************************************)
C16_EqualGraphsEqualAnswers ==
    \A r1 \in Requests, r2 \in Requests :
       LET q1 == requests[r1]
           q2 == requests[r2]
       IN  /\ q1.payload = q2.payload /\ q1.row = q2.row
           /\ q1.ability.status = "built" /\ q2.ability.status = "built"
           => /\ q1.ability.rules = q2.ability.rules
              /\ q1.endpoint.policies = q2.endpoint.policies
                    => (q1.response.by = "guard") = (q2.response.by = "guard")
              /\ q1.endpoint = q2.endpoint /\ q1.post = q2.post
                 /\ q1.pc = "done" /\ q2.pc = "done"
                    => q1.response = q2.response

\* user 12 asks twice to delete their own post and is answered twice alike,
\* by rules that hold the resolved id
C16_Witness ==
    /\ requests[1].payload = 12 /\ requests[1].row = requests[2].row
    /\ requests[2].payload = 12
    /\ requests[1].endpoint = requests[2].endpoint
    /\ requests[1].post = PostOf(12) /\ requests[2].post = PostOf(12)
    /\ requests[1].pc = "done" /\ requests[2].pc = "done"
    /\ requests[1].response.status = "ok" /\ requests[1].response.by = "service"
    /\ requests[2].response = requests[1].response
    /\ \E i \in 1..Len(requests[2].ability.rules) :
          /\ requests[2].ability.rules[i].conditions.defined
          /\ requests[2].ability.rules[i].conditions.fields[1].value = Num(12)

ExpectedRule(row, i) ==
    LET perms == VisitedPermissions(row)
        allows == Len(perms) - Cardinality({k \in 1..Len(row.directPermissions) :
                                               row.directPermissions[k].inverted})
        stored == perms[i].conditions
    IN  [action |-> perms[i].action, subject |-> perms[i].subject,
         inverted |-> i > allows,
         conditions |->
            IF stored.kind # "object" THEN NoConditions
            ELSE Resolved([k \in 1..Len(stored.fields) |->
                    Entry(stored.fields[k].field, stored.fields[k].op,
                          ExpectedLeaf(stored.fields[k].value, row))])]

ExpectedRules(row) ==
    [i \in 1..Len(VisitedPermissions(row)) |-> ExpectedRule(row, i)]

\* the answer of the rules of the row alone to a query
ExpectedCan(row, action, subject) ==
    LastMatchAllows(ExpectedRules(row), AmendedMatch, action, subject)

\* how the request ends when served alone
ExpectedResponse(q) ==
    IF q.payload = 0 \/ ~q.row.isActive THEN Response("false", "guard", NullReason)
    ELSE IF \E i \in 1..Len(q.endpoint.policies) :
               ~ExpectedCan(q.row, q.endpoint.policies[i].action,
                            TypeSubject(q.endpoint.policies[i].subject))
         THEN Response("forbidden", "guard", GuardForbidden)
    ELSE IF ~q.endpoint.verifies THEN Response("ok", "controller", NullReason)
    ELSE IF ~q.post.found THEN Response("notfound", "service", PostNotFound)
    ELSE IF ExpectedCan(q.row, q.endpoint.action, PostInstance(q.post.authorId, TRUE))
         THEN Response("ok", "service", NullReason)
    ELSE Response("forbidden", "service",
             IF q.post.authorId # q.payload THEN NotTheAuthor ELSE DeniedByPolicy)

C18_RequestsDoNotInterfere ==
    \A r \in Requests :
       LET q == requests[r]
       IN  /\ q.ability.status = "built" =>
                 \A i \in 1..Len(q.ability.rules) :
                    /\ Len(q.ability.rules) = Len(VisitedPermissions(q.row))
                    /\ q.ability.rules[i].action = ExpectedRule(q.row, i).action
                    /\ q.ability.rules[i].subject = ExpectedRule(q.row, i).subject
                    /\ q.ability.rules[i].inverted = ExpectedRule(q.row, i).inverted
                    /\ q.ability.rules[i].conditions = ExpectedRule(q.row, i).conditions
           /\ q.pc = "done" => q.response = ExpectedResponse(q)

\* users 2 and 12 were served together; each rule list holds its own user's
\* id, and user 12 used a template user 2's build had cached
C18_Witness ==
    /\ requests[1].payload = 2 /\ requests[2].payload = 12
    /\ requests[1].pc = "done" /\ requests[2].pc = "done"
    /\ \E i \in 1..Len(requests[1].ability.rules) :
          /\ requests[1].ability.rules[i].conditions.defined
          /\ requests[1].ability.rules[i].conditions.fields[1].value = Num(2)
    /\ \E i \in 1..Len(requests[2].ability.rules) :
          /\ requests[2].ability.rules[i].conditions.defined
          /\ requests[2].ability.rules[i].conditions.fields[1].value = Num(12)
    /\ requests[1].response.status = "forbidden" /\ requests[1].response.by = "service"
    /\ requests[2].response.status = "ok" /\ requests[2].response.by = "service"

(***************************************************************************)
(* C20. PoliciesGuard.canActivate lets a request through iff every policy  *)
(* handler of the endpoint returns true for the user's ability, function   *)
(* handlers and handle() objects alike; if a handler returns false it      *)
(* throws ForbiddenException and the controller method does not run.       *)
(***************************************************************************)
\* the handlers of the endpoint that the user's rules answer with false
FailingHandlers(q) ==
    {i \in 1..Len(q.endpoint.policies) :
        ~LastMatchAllows(q.ability.rules, AmendedMatch, q.endpoint.policies[i].action,
                         TypeSubject(q.endpoint.policies[i].subject))}

C20_GuardIsConjunctionOfHandlers ==
    \A r \in Requests :
       LET q == requests[r]
       IN  /\ q.ability.status = "built" =>
                 IF FailingHandlers(q) = {}
                 THEN /\ q.pc \in {"controller", "done"}
                      /\ q.response.by # "guard"
                      /\ q.pc = "done" => q.controllerRan
                 ELSE /\ q.pc = "done"
                      /\ q.response = Response("forbidden", "guard", GuardForbidden)
                      /\ ~q.controllerRan
           /\ q.controllerRan => q.ability.status = "built" /\ FailingHandlers(q) = {}

\* the function handler returns true, the handle() object false: forbidden
C20_Witness ==
    \E r \in Requests :
       LET q == requests[r]
       IN  /\ Len(q.endpoint.policies) = 2
           /\ q.endpoint.policies[2].kind = "object"
           /\ q.ability.status = "built"
           /\ FailingHandlers(q) = {2}
           /\ q.response.status = "forbidden" /\ ~q.controllerRan


(***************************************************************************)
(* C19. A permission whose stored condition is null compiles to a rule     *)
(* with no condition, and such a rule matches every query on its action    *)
(* and subject type, type-only queries and every resource instance alike,  *)
(* as an Allow rule and as a Deny rule.                                    *)
(***************************************************************************)
C19_NullConditionIsUnconditional ==
    LET perms == VisitedPermissions(user.value)
        n == Len(perms)
    IN  /\ ability.status = "built" =>
              \A i \in 1..n :
                 perms[i].conditions.kind = "null"
                    => /\ Len(ability.rules) = n
                       /\ ~ability.rules[i].conditions.defined
                       /\ ability.rules[i].conditions = NoConditions
        \* the last rule decides whenever the query is on its action and type
        /\ Asked /\ perms[n].conditions.kind = "null"
           /\ ActionAdmits(ability.rules[n], QAction)
           /\ SubjectAdmits(ability.rules[n], QType)
              => lastQuery.result = ~ability.rules[n].inverted

\* the Deny rule of a null condition refuses a post of any author
C19_Witness ==
    /\ Asked /\ Len(ability.rules) = 2
    /\ VisitedPermissions(user.value)[2].conditions = NullConditions
    /\ ability.rules[2].inverted /\ ability.rules[2].subject = "Post"
    /\ ~lastQuery.subject.isType
    /\ QAction = ability.rules[2].action
    /\ ~lastQuery.result


(***************************************************************************)
(* C24. A user with a role granting (manage, all) and two direct revokes   *)
(* on (delete, Post), one on {authorId: "{{id}}"} and one on               *)
(* {authorId: {"$ne": "{{id}}"}}, cannot delete any Post instance, own or  *)
(* not, while every other action on posts stays allowed.                   *)
(***************************************************************************)
C24_TwoRevokesDenyEveryDelete ==
    /\ Asked /\ QType = "Post" /\ ~lastQuery.subject.isType
          => lastQuery.result = (QAction # "delete")
    /\ Asked /\ QType = "Post" /\ lastQuery.subject.isType /\ QAction # "delete"
          => lastQuery.result

\* the delete of a post of another author is refused, by the $ne revoke
C24_Witness ==
    /\ Asked /\ QAction = "delete" /\ ~lastQuery.subject.isType
    /\ FieldValue(lastQuery.subject.attrs, "authorId") = Num(999)
    /\ Len(ability.rules) = 3
    /\ ~lastQuery.result


(***************************************************************************)
(* C21. PoliciesGuard.canActivate returns false, without building an       *)
(* ability or running a policy handler, when the request carries no user   *)
(* payload or when no user with that id is active and not soft-deleted.    *)
(***************************************************************************)
\* the User table has a usable row for the id: active and not soft-deleted
Usable(users, userId) ==
    /\ userId \in DOMAIN users
    /\ users[userId].isActive
    /\ users[userId].deletedAt = NullDate

C21_NoUserNoAbility ==
    [][\A r \in Requests :
          requests[r].pc = "guard" /\ requests'[r].pc # "guard"
             => IF requests[r].payload = 0 \/ ~Usable(db.users, requests[r].payload)
                THEN /\ requests'[r].pc = "done"
                     /\ requests'[r].response = Response("false", "guard", NullReason)
                     /\ requests'[r].abilities = 0
                     /\ ~requests'[r].handlersRan
                     /\ templateCache' = templateCache
                ELSE /\ requests'[r].response.status # "false"
                     /\ requests'[r].abilities = 1]_vars

\* a soft-deleted user was refused by the guard, and so was a request
\* without a user
C21_Witness ==
    /\ requests[1].pc = "done" /\ requests[1].payload # 0
    /\ requests[1].afterRemoval
    /\ requests[1].response = Response("false", "guard", NullReason)
    /\ requests[1].abilities = 0
    /\ requests[2].pc = "done" /\ requests[2].payload = 0
    /\ requests[2].response = Response("false", "guard", NullReason)


(***************************************************************************)
(* C22. verifyPostAccess checks in a fixed order: a missing post raises    *)
(* NotFoundException before any permission is looked at, whoever asks;     *)
(* otherwise a missing or inactive user raises ForbiddenException;         *)
(* otherwise it raises ForbiddenException iff can(action, post instance)   *)
(* is false, and it returns its success result only when can() is true.    *)
(***************************************************************************)
\* what the rules of the user's graph at this instant answer on the post
AllowedNow(users, userId, action, authorId, t) ==
    /\ Usable(users, userId)
    /\ ExpectedCan(getUserWithPermissions(users[userId], userId, t), action,
                   PostInstance(authorId, TRUE))

C22_VerifyPostAccessOrder ==
    [][\A r \in Requests :
          LET q == requests[r]
              after == requests'[r]
          IN  \* the first await: the post
              /\ q.pc = "controller" /\ q.method # "create" /\ after.pc # "controller"
                    => IF ~db.posts[q.postId].exists
                       THEN /\ after.pc = "done"
                            /\ after.response = Response("notfound", "service", PostNotFound)
                            /\ after.abilities = q.abilities
                       ELSE /\ after.pc = "verifyUser"
                            /\ after.response = NoResponse
              \* the second await: the user, then the ability and can()
              /\ q.pc = "verifyUser" /\ after.pc # "verifyUser"
                    => IF ~Usable(db.users, q.payload)
                       THEN /\ after.pc = "done"
                            /\ after.response = Response("forbidden", "service", UserNotFound)
                            /\ after.abilities = q.abilities
                       ELSE IF AllowedNow(db.users, q.payload, ActionOf(q.method),
                                          q.post.authorId, now)
                       THEN /\ after.pc = "findOne" /\ after.verifyAccepted
                            /\ after.response = NoResponse
                       ELSE /\ after.pc = "done" /\ ~after.verifyAccepted
                            /\ after.response.status = "forbidden"
                            /\ after.response.by = "service"
                            /\ after.response.reason \in {NotTheAuthor, DeniedByPolicy}]_vars

\* one request got NotFoundException and built no ability in verifyPostAccess;
\* the other passed the guard, lost its user, and got ForbiddenException
C22_Witness ==
    /\ requests[1].pc = "done"
    /\ requests[1].response = Response("notfound", "service", PostNotFound)
    /\ requests[1].abilities = 1
    /\ requests[2].pc = "done" /\ requests[2].guardAccepted
    /\ requests[2].response = Response("forbidden", "service", UserNotFound)


(***************************************************************************)
(* C23. For PATCH /posts/:id and DELETE /posts/:id, PostsService.update or *)
(* remove is invoked only after PoliciesGuard accepted can(action, 'Post') *)
(* and then verifyPostAccess accepted the same action on the post; if      *)
(* either check fails the post is left unchanged.                          *)
(***************************************************************************)
C23_WriteOnlyAfterBothChecks ==
    [][/\ \A p \in PostIds :
             db'.posts[p] # db.posts[p]
                => \E r \in Requests :
                      /\ ~requests[r].wrote /\ requests'[r].wrote
                      /\ requests'[r].postId = p
                      /\ requests[r].guardAccepted
                      /\ requests[r].method # "create" => requests[r].verifyAccepted
       /\ \A r \in Requests :
             LET after == requests'[r]
             IN  \* PostsService is entered after both checks, in their order
                 /\ after.method # "create" /\ after.pc \in {"findOne", "write"}
                       => after.guardAccepted /\ after.verifyAccepted
                 /\ after.verifyAccepted => after.guardAccepted /\ after.controllerRan
                 /\ after.controllerRan => after.guardAccepted
                 \* a request that was refused has written nothing
                 /\ after.pc = "done" /\ after.response.status # "ok" => ~after.wrote
                 /\ after.wrote => after.guardAccepted]_vars

\* the editor's PATCH of the own post went through both checks and changed
\* the title; the other request was refused by the guard and wrote nothing
C23_Witness ==
    /\ requests[1].pc = "done" /\ requests[1].method = "update"
    /\ requests[1].guardAccepted /\ requests[1].verifyAccepted /\ requests[1].wrote
    /\ db.posts[1].title = 2
    /\ requests[2].pc = "done" /\ requests[2].method = "remove"
    /\ requests[2].response = Response("forbidden", "guard", GuardForbidden)
    /\ ~requests[2].wrote


(***************************************************************************)
(* C25. Ownership is preserved by the posts API: after any sequence of     *)
(* POST /posts and PATCH /posts/:id requests every post's authorId equals  *)
(* the id of the authenticated user who created it.                        *)
(***************************************************************************)
C25_AuthorIsCreator ==
    \A p \in PostIds :
       db.posts[p].exists => db.posts[p].authorId = db.posts[p].creator


(***************************************************************************)
(* C26. Whenever PostsService.update or remove modifies a post for a       *)
(* request, the requesting user is authorised for that action on that post *)
(* at the moment of the write: an ability built from the current graph and *)
(* the post's current authorId would still allow it, under any             *)
(* interleaving with other requests, removals and expiries.                *)
(***************************************************************************)
C26_AuthorisedAtWrite ==
    [][\A r \in Requests :
          /\ requests[r].method # "create"
          /\ ~requests[r].wrote /\ requests'[r].wrote
          => AllowedNow(db.users, requests[r].payload, ActionOf(requests[r].method),
                        db.posts[requests[r].postId].authorId, now)]_vars


(***************************************************************************)
(* C27. After UsersService.remove(id) has soft-deleted a user, every later *)
(* request of that user to an endpoint behind PoliciesGuard is rejected    *)
(* and every verifyPostAccess for that user throws ForbiddenException;     *)
(* no policy-guarded handler runs for that user again.                     *)
(***************************************************************************)
\* the row of the request's user has deletedAt set
Removed(users, userId) ==
    userId \in DOMAIN users /\ users[userId].deletedAt # NullDate

\* the statement as claimed: ForbiddenException from every verifyPostAccess
C27_ClaimedAlwaysForbidden ==
    [][\A r \in Requests :
          LET q == requests[r]
              after == requests'[r]
          IN  Removed(db.users, q.payload)
                 => /\ q.pc = "guard" /\ after.pc # "guard"
                          => /\ after.pc = "done"
                             /\ after.response = Response("false", "guard", NullReason)
                    /\ q.pc = "controller" /\ q.method # "create"
                       /\ after.pc \notin {"controller", "verifyUser"}
                          => after.response.status = "forbidden"
                    /\ q.pc = "verifyUser" /\ after.pc # "verifyUser"
                          => after.response.status = "forbidden"]_vars

\* as the code has it: the guard refuses every request that arrives after
\* the removal, so that no handler runs for it; a verifyPostAccess that
\* runs for the removed user throws NotFoundException when the post is
\* missing and ForbiddenException otherwise, and never returns
C27_RemovedUserIsRefused ==
    [][\A r \in Requests :
          LET q == requests[r]
              after == requests'[r]
          IN  /\ Removed(db.users, q.payload)
                 => /\ q.pc = "guard" /\ after.pc # "guard"
                          => /\ after.pc = "done"
                             /\ after.response = Response("false", "guard", NullReason)
                             /\ after.abilities = 0
                             /\ ~after.controllerRan
                    /\ q.pc = "controller" /\ q.method # "create"
                       /\ after.pc # "controller"
                          => IF db.posts[q.postId].exists
                             THEN after.pc = "verifyUser" /\ after.response = NoResponse
                             ELSE /\ after.pc = "done"
                                  /\ after.response =
                                        Response("notfound", "service", PostNotFound)
                    /\ q.pc = "verifyUser" /\ after.pc # "verifyUser"
                          => /\ after.pc = "done"
                             /\ after.response =
                                   Response("forbidden", "service", UserNotFound)
                             /\ ~after.verifyAccepted
              /\ after.afterRemoval
                    => /\ Removed(db'.users, after.payload)
                       /\ ~after.guardAccepted /\ ~after.controllerRan /\ ~after.wrote
                       /\ after.pc \in {"guard", "done"}]_vars

\* user 2 was soft-deleted while the first request was past the guard: its
\* verifyPostAccess threw ForbiddenException, and the request that arrived
\* afterwards was refused by the guard
C27_Witness ==
    /\ Removed(db.users, 2)
    /\ requests[1].payload = 2 /\ requests[1].pc = "done"
    /\ requests[1].guardAccepted
    /\ requests[1].response = Response("forbidden", "service", UserNotFound)
    /\ requests[2].payload = 2 /\ requests[2].pc = "done"
    /\ requests[2].afterRemoval
    /\ requests[2].response = Response("false", "guard", NullReason)


(***************************************************************************)
(* C28. Logout changes no server-side state: after POST /auth/logout a     *)
(* request that presents the same unexpired JWT, as cookie or as Bearer    *)
(* header, is still authenticated and reaches non-public handlers; the     *)
(* token stops being accepted only when it expires.                        *)
(***************************************************************************)
C28_LogoutRevokesNothing ==
    [][\A r \in Requests :
          requests[r].pc = "idle" /\ requests'[r].pc = "done"
             => LET after == requests'[r]
                IN  /\ after.authenticated =
                          (after.token \in jwt.issued /\ now < after.token.exp)
                    /\ after.handlerRan = after.authenticated
                    /\ after.afterLogout /\ now < after.token.exp => after.handlerRan
                    \* the tables and the signed tokens are what they were
                    /\ db' = db
                    /\ jwt'.issued = jwt.issued]_vars

\* the token of a completed logout was presented again and GET /users/me ran
C28_Witness ==
    \E r \in Requests :
       /\ requests[r].pc = "done" /\ requests[r].endpoint = "me"
       /\ requests[r].afterLogout
       /\ requests[r].token \in jwt.loggedOut
       /\ jwt.cookie[requests[r].token.sub] = NoToken
       /\ requests[r].authenticated /\ requests[r].handlerRan

====
